---- MODULE Spec2Model ----
(***************************************************************************)
(* Verification model of the AMPECO report handlers:                       *)
(*   - the cursor paginators (sweep paginator of api/ampeco-transactions,  *)
(*     the simple capped paginator, the uncapped session paginators),      *)
(*   - the retrying HTTP clients (fetchJson, fetchJsonWithRetry),          *)
(*   - the tariff classifier (tarifasFromVilniusTime, tarifas) and the EU  *)
(*     daylight-saving rule (isSummerTimeEU).                              *)
(***************************************************************************)
EXTENDS Integers, Sequences, FiniteSets, TLC

(***************************************************************************)
(* Bounds of the model.                                                    *)
(***************************************************************************)
MaxN == 3            \* largest upstream dataset (records 1..N)
MaxPerPage == 2      \* largest per_page tried
MaxPagesCap == 3     \* largest max_pages tried
MaxItemsCap == 3     \* largest max_items tried
MaxSweep == 3        \* largest sweep_passes tried
MaxRows == 2         \* longest page an arbitrary upstream returns
MaxAll == 2          \* records an uncapped session paginator accumulates

(***************************************************************************)
(* Values.                                                                 *)
(***************************************************************************)
NoUrl == 0                      \* null / absent next pointer
BlankUrl == -1                  \* the empty string as next pointer
FirstUrl == 1                   \* firstUrl (page 1, empty cursor)
Urls == 1..MaxN                 \* page URLs / cursors
NullId == 0                     \* a record without id (id == null)
AdvIds == 1..2                  \* ids an arbitrary upstream serves
Vers == 1..2                    \* payload versions of a record
Handlers == {"sweep", "simple", "sessions"}

Rec(i, v) == [id |-> i, ver |-> v]

Min2(a, b) == IF a < b THEN a ELSE b

SeqsUpTo(S, n) == UNION {[1..k -> S] : k \in 0..n}

VARIABLES
  handler,               \* which paginator serves the request
  upstream,              \* [kind |-> "dataset", n |-> N] or [kind |-> "any"]
  perPage, maxPages, maxItems, sweepPasses,
  pc,                    \* "idle" | "loop" | "await" | "done" | "failed"
  pass,                  \* sweep: pass (1-based)
  nextUrl,               \* nextUrl / url / cursor
  pagesFetchedThisPass,  \* sweep: pagesFetchedThisPass; simple: pagesFetched
  addedThisPass,
  seenNextUrls,
  byId,                  \* sweep accumulator: id -> record
  fetchDebug,            \* sweep debug block
  all,                   \* simple / sessions accumulator
  data,                  \* simple: all.slice(0, maxItems)
  truncated,             \* simple: all.length > maxItems
  reqIssued,             \* history: page requests sent by the sweep / simple paginator
  firstRet,              \* history: first record the upstream returned per id (sweep)
  lateDup,               \* history: an id came back later with another payload (sweep)
  reqThisPass,           \* history: requests sent in the current pass, per URL (sweep)
  reqPerPass             \* history: requests sent in each finished pass (sweep)

pagVars == <<handler, upstream, perPage, maxPages, maxItems, sweepPasses, pc,
             pass, nextUrl, pagesFetchedThisPass, addedThisPass, seenNextUrls,
             byId, fetchDebug, all, data, truncated, reqIssued, firstRet, lateDup,
             reqThisPass, reqPerPass>>

pagHist == <<reqThisPass, reqPerPass>>

VARIABLES
  client,        \* which retrying client runs: "fetchJson" | "fetchJsonShared" | "fetchJsonWithRetry"
  hcPc,          \* "idle" | "top" | "fetching" | "sleeping" | "returned" | "failed"
  attempt,       \* loop variable of the retry loop
  controller,    \* id of the AbortController whose signal the fetch uses
  abortedCtrls,  \* controllers on which abort() was called
  timers,        \* armed timeouts: [born |-> request number, ctrl |-> controller id]
  reqLog,        \* history: outcome of every request of the call, in order
  lastErr,       \* fetchJsonWithRetry: lastErr (request number of the error, 0 = null)
  thrown,        \* request number whose error the call failed with (0 = none)
  aborts         \* history: <<request during which the timer was armed, request it aborted>>

hcVars == <<client, hcPc, attempt, controller, abortedCtrls, timers, reqLog,
            lastErr, thrown, aborts>>

VARIABLES
  instant,       \* the classified instant, in minutes since 1970-01-01T00:00Z
  labelVilnius,  \* result of tarifasFromVilniusTime ("" = not called yet)
  labelEU,       \* result of tarifas ("" = not called yet)
  summerEU       \* result of isSummerTimeEU ("unset" = not called yet)

tarVars == <<instant, labelVilnius, labelEU, summerEU>>

VARIABLES
  recSessions,   \* the station's normalized sessions handed to the report builder
  recCall,       \* which builder ran ("none" = not called yet)
  recRows,       \* detail rows of the station (of its sheet, for the Excel builders)
  recRowsCount,  \* rowsCount of extractDetailRowsForStation
  recSheet,      \* "none" | "station" (the station has a sheet) | "info" (Info sheet only)
  recTotal       \* totalSessions of the request (all stations)

recVars == <<recSessions, recCall, recRows, recRowsCount, recSheet, recTotal>>

VARIABLES
  shVariant,        \* sessions handler: "plain" (date listing only) | "merge" (plus active listing)
  internalKey,      \* process.env.INTERNAL_API_KEY (0 = not configured)
  hdrKey,           \* x-api-key header of the request (0 = absent)
  qryKey,           \* apiKey query parameter of the request (0 = absent)
  shPc,             \* "idle" | "auth" | "listRange" | "listActive" | "enrich" | "respond" | "done"
  upSessions,       \* the sessions the upstream holds for the station
  activeMode,       \* how the upstream treated filter[status]: "supported" | "ignored" | "error"
  shPages,          \* pages of the active listing received so far
  inRangeSessions,  \* result of the date-filtered listing
  mergedSessions,   \* Array.from(byId.values())
  enriched,         \* enriched, while enrichActiveSessionsConsumptionStats runs
  statsLog,         \* history: consumption-stats requests, [id, answer]
  upRequests,       \* history: number of upstream requests sent
  httpStatus,       \* status of the response (0 = none yet)
  shFormat,         \* format of the request, read when the response is built
  normalized,       \* normalizeSessionsForN8n(...)
  reportRows        \* detail rows of the station's sheet (format=xlsx)

shVars == <<shVariant, internalKey, hdrKey, qryKey, shPc, upSessions, activeMode,
            shPages, inRangeSessions, mergedSessions, enriched, statsLog,
            upRequests, httpStatus, shFormat, normalized, reportRows>>

VARIABLES
  enrVariant,          \* enrichment handler: "transactions" | "unique" | "perTx"
  limit,               \* concurrency, the limit of runWithConcurrency
  filtered,            \* userId of each filtered transaction, in order
  tasks,               \* the tasks handed to the pool: [userId, tx]
  enrPc,               \* "idle" | "start" | "running" | "done"
  poolI,               \* the shared index i of the pool (1-based: next task to start)
  wk,                  \* workers: [st |-> "ready" | "invoice" | "profile" | "done", idx]
  out,                 \* out[idx], r = "unset" while the task has not settled
  invoiceCache,        \* invoiceCache / cache: userId -> invoice details, "undef" = no entry
  userCache,           \* userCache: userId -> profile, "undef" = no entry
  invoiceFetchErrors,
  userFetchErrors,
  invoiceReqs,         \* history: invoice-details requests sent per userId
  started,             \* history: how often each task was started
  threw,               \* history: tasks whose promise rejected
  lookups,             \* history: answers of the invoice-details and profile lookups
  enrData,             \* data of the response
  enrStatus            \* status of the response (0 = none yet)

enrVars == <<enrVariant, limit, filtered, tasks, enrPc, poolI, wk, out, invoiceCache,
             userCache, invoiceFetchErrors, userFetchErrors, invoiceReqs, started,
             threw, lookups, enrData, enrStatus>>

VARIABLES
  valHandler,    \* "sessionsApi" | "sessionsMerge" | "transactions" | "report"
  qAfter,        \* startedAfter / createdAfter / from of the request
  qBefore,       \* startedBefore / createdBefore / to of the request
  qPerPage,      \* per_page of the request
  valPc,         \* "idle" | "start" | "upstream" | "done"
  valStatus,     \* status of the response (0 = none yet)
  sentAfter,     \* lower date filter of the first upstream request ("none" = no request)
  sentBefore,    \* upper date filter of the first upstream request
  sentPerPage    \* per_page of the first upstream request, in tenths

valVars == <<valHandler, qAfter, qBefore, qPerPage, valPc, valStatus, sentAfter,
             sentBefore, sentPerPage>>

\* The month summary of a station: the energies of the session's records
\* and what extractDetailRowsForStation returns next to the rows.
VARIABLES
  whP,          \* energy (Wh) of each charging period of the session
  whC,          \* energy (Wh) of each clock-aligned sample of the session
  rowKwh,       \* energy_kwh of each row of recRows
  sumDay,       \* sumDay of the return value
  sumNight      \* sumNight of the return value

sumVars == <<whP, whC, rowKwh, sumDay, sumNight>>

\* The filter step of the transactions handler.
VARIABLES
  transactions,   \* Array.from(byId.values())
  txPos,          \* transactions the loop has handled
  reasons,        \* the drop-reason counters
  filteredTx      \* filtered

filVars == <<transactions, txPos, reasons, filteredTx>>

vars == <<pagVars, hcVars, tarVars, recVars, shVars, enrVars, valVars, sumVars, filVars>>

nonPagVars == <<hcVars, tarVars, recVars, shVars, enrVars, valVars, sumVars, filVars>>
nonHcVars == <<pagVars, tarVars, recVars, shVars, enrVars, valVars, sumVars, filVars>>
nonTarVars == <<pagVars, hcVars, recVars, shVars, enrVars, valVars, sumVars, filVars>>
nonRecVars == <<pagVars, hcVars, tarVars, shVars, enrVars, valVars, sumVars, filVars>>
nonShVars == <<pagVars, hcVars, tarVars, recVars, enrVars, valVars, sumVars, filVars>>
nonEnrVars == <<pagVars, hcVars, tarVars, recVars, shVars, valVars, sumVars, filVars>>
nonValVars == <<pagVars, hcVars, tarVars, recVars, shVars, enrVars, sumVars, filVars>>
\* the summary is computed on the reconciler's variables too
nonSumVars == <<pagVars, hcVars, tarVars, shVars, enrVars, valVars, filVars>>
nonFilVars == <<pagVars, hcVars, tarVars, recVars, shVars, enrVars, valVars, sumVars>>

(* the parts of the program that take no part in a specification stay idle *)
PagIdle ==
  /\ handler = "none" /\ upstream = [kind |-> "none", n |-> 0]
  /\ perPage = 1 /\ maxPages = 1 /\ maxItems = 1 /\ sweepPasses = 1
  /\ pc = "idle" /\ pass = 1 /\ nextUrl = 0
  /\ pagesFetchedThisPass = 0 /\ addedThisPass = 0 /\ seenNextUrls = {}
  /\ byId = <<>> /\ all = <<>> /\ data = <<>> /\ truncated = FALSE
  /\ fetchDebug = [pagesFetchedTotal |-> 0, passes |-> <<>>, hitMaxPages |-> FALSE,
                   hitMaxItems |-> FALSE, loopBreaks |-> 0]
  /\ reqIssued = 0 /\ firstRet = <<>> /\ lateDup = FALSE
  /\ reqThisPass = <<>> /\ reqPerPass = <<>>

HcIdle ==
  /\ client = "none" /\ hcPc = "idle" /\ attempt = 0 /\ controller = 0
  /\ abortedCtrls = {} /\ timers = {} /\ reqLog = <<>>
  /\ lastErr = 0 /\ thrown = 0 /\ aborts = {}

TarIdle ==
  /\ instant = 0 /\ labelVilnius = "" /\ labelEU = "" /\ summerEU = "unset"

RecIdle ==
  /\ recSessions = <<>> /\ recCall = "none" /\ recRows = <<>>
  /\ recRowsCount = 0 /\ recSheet = "none" /\ recTotal = 0

ShIdle ==
  /\ shVariant = "none" /\ internalKey = 0 /\ hdrKey = 0 /\ qryKey = 0
  /\ shPc = "idle" /\ upSessions = {} /\ activeMode = "none" /\ shPages = 0
  /\ inRangeSessions = <<>> /\ mergedSessions = <<>> /\ enriched = <<>>
  /\ statsLog = <<>> /\ upRequests = 0 /\ httpStatus = 0 /\ shFormat = "none"
  /\ normalized = <<>> /\ reportRows = <<>>

EnrIdle ==
  /\ enrVariant = "none" /\ limit = 1 /\ filtered = <<>> /\ tasks = <<>>
  /\ enrPc = "idle" /\ poolI = 1 /\ wk = <<>> /\ out = <<>>
  /\ invoiceCache = <<>> /\ userCache = <<>>
  /\ invoiceFetchErrors = 0 /\ userFetchErrors = 0
  /\ invoiceReqs = <<>> /\ started = <<>> /\ threw = {} /\ lookups = {}
  /\ enrData = <<>> /\ enrStatus = 0

ValIdle ==
  /\ valHandler = "none" /\ qAfter = "absent" /\ qBefore = "absent"
  /\ qPerPage = [kind |-> "absent", tenths |-> 0]
  /\ valPc = "idle" /\ valStatus = 0
  /\ sentAfter = "none" /\ sentBefore = "none" /\ sentPerPage = 0

SumIdle ==
  whP = <<>> /\ whC = <<>> /\ rowKwh = <<>> /\ sumDay = 0 /\ sumNight = 0

FilIdle ==
  /\ transactions = <<>> /\ txPos = 0 /\ filteredTx = <<>>
  /\ reasons = [totalZero |-> 0, statusNotFinal |-> 0, payNoMatch |-> 0, missingUserId |-> 0]

EmptyMap == [x \in {} |-> 0]

FetchDebug0 ==
  [pagesFetchedTotal |-> 0, passes |-> <<>>, hitMaxPages |-> FALSE,
   hitMaxItems |-> FALSE, loopBreaks |-> 0]

(***************************************************************************)
(* The upstream.  A dataset upstream serves records 1..n, perPage per      *)
(* page, page p under URL p, and a next pointer while records remain.  An  *)
(* arbitrary upstream answers any page with any next pointer.              *)
(***************************************************************************)
DatasetPage(n, pp, url) ==
  LET lo == (url - 1) * pp + 1
      hi == Min2(url * pp, n)
  IN [rows |-> [k \in 1..(IF hi >= lo THEN hi - lo + 1 ELSE 0) |-> Rec(lo + k - 1, 1)],
      next |-> IF url * pp < n THEN url + 1 ELSE NoUrl]

AdvRecords(h) ==
  IF h = "sweep"
    THEN {Rec(i, v) : i \in AdvIds \cup {NullId}, v \in Vers}
    ELSE {Rec(i, 1) : i \in AdvIds}

Responses(h, up, pp, url) ==
  IF up.kind = "dataset"
    THEN {DatasetPage(up.n, pp, url)}
    ELSE {[rows |-> r, next |-> nx] :
            r \in SeqsUpTo(AdvRecords(h), MaxRows),
            nx \in Urls \cup {NoUrl, BlankUrl}}

(***************************************************************************)
(* normalizeNextUrl: null and the empty string give null, every other      *)
(* pointer is resolved to the absolute URL of its page.                    *)
(***************************************************************************)
normalizeNextUrl(raw) == IF raw = NoUrl \/ raw = BlankUrl THEN NoUrl ELSE raw

(* links.next of the simple paginators: a non-empty string, else null. *)
linksNext(raw) == IF raw = NoUrl \/ raw = BlankUrl THEN NoUrl ELSE raw

(***************************************************************************)
(* The row loop of the sweep paginator (byId.has / byId.set).              *)
(***************************************************************************)
RECURSIVE MergeRowsLastWins(_, _, _, _)
MergeRowsLastWins(m, added, rows, cap) ==
  IF rows = <<>> THEN [m |-> m, added |-> added]
  ELSE LET r == Head(rows) IN
    IF r.id = NullId THEN MergeRowsLastWins(m, added, Tail(rows), cap)
    ELSE IF r.id \in DOMAIN m
      THEN MergeRowsLastWins([m EXCEPT ![r.id] = r], added, Tail(rows), cap)
    ELSE LET m2 == [i \in DOMAIN m \cup {r.id} |-> IF i = r.id THEN r ELSE m[i]] IN
      IF Cardinality(DOMAIN m2) >= cap
        THEN [m |-> m2, added |-> added + 1]
        ELSE MergeRowsLastWins(m2, added + 1, Tail(rows), cap)

(* without the break at maxItems *)
RECURSIVE MergeRowsNoCap(_, _, _, _)
MergeRowsNoCap(m, added, rows, cap) ==
  IF rows = <<>> THEN [m |-> m, added |-> added]
  ELSE LET r == Head(rows) IN
    IF r.id = NullId THEN MergeRowsNoCap(m, added, Tail(rows), cap)
    ELSE IF r.id \in DOMAIN m THEN MergeRowsNoCap(m, added, Tail(rows), cap)
    ELSE MergeRowsNoCap([i \in DOMAIN m \cup {r.id} |-> IF i = r.id THEN r ELSE m[i]],
                        added + 1, Tail(rows), cap)

RECURSIVE MergeRows(_, _, _, _)
MergeRows(m, added, rows, cap) ==
  IF rows = <<>> THEN [m |-> m, added |-> added]
  ELSE LET r == Head(rows) IN
    IF r.id = NullId THEN MergeRows(m, added, Tail(rows), cap)
    ELSE IF r.id \in DOMAIN m THEN MergeRows(m, added, Tail(rows), cap)
    ELSE LET m2 == [i \in DOMAIN m \cup {r.id} |-> IF i = r.id THEN r ELSE m[i]] IN
      IF Cardinality(DOMAIN m2) >= cap
        THEN [m |-> m2, added |-> added + 1]
        ELSE MergeRows(m2, added + 1, Tail(rows), cap)

(* history: the first record returned per id, over everything the upstream sent *)
RECURSIVE NoteFirst(_, _)
NoteFirst(f, rows) ==
  IF rows = <<>> THEN f
  ELSE LET r == Head(rows) IN
    IF r.id = NullId \/ r.id \in DOMAIN f THEN NoteFirst(f, Tail(rows))
    ELSE NoteFirst([i \in DOMAIN f \cup {r.id} |-> IF i = r.id THEN r ELSE f[i]],
                   Tail(rows))

(* history: a record of rows repeats an id returned before, with another payload *)
RECURSIVE HasLateDup(_, _)
HasLateDup(f, rows) ==
  IF rows = <<>> THEN FALSE
  ELSE LET r == Head(rows) IN
    IF r.id = NullId THEN HasLateDup(f, Tail(rows))
    ELSE IF r.id \in DOMAIN f THEN (f[r.id] # r) \/ HasLateDup(f, Tail(rows))
    ELSE HasLateDup(NoteFirst(f, <<r>>), Tail(rows))

(***************************************************************************)
(* Request parameters and the start of a request.                          *)
(***************************************************************************)
PagInit ==
  /\ handler \in Handlers
  /\ upstream \in {[kind |-> "dataset", n |-> n] : n \in 0..MaxN} \cup {[kind |-> "any", n |-> 0]}
  /\ perPage \in 1..MaxPerPage
  /\ maxPages \in 1..MaxPagesCap
  /\ maxItems \in 1..MaxItemsCap
  /\ sweepPasses \in 1..MaxSweep
  /\ (handler # "sweep" => sweepPasses = 1)
  /\ (handler = "sessions" => maxPages = 1 /\ maxItems = 1)
  /\ (upstream.kind = "any" => perPage = MaxPerPage)
  /\ pc = "loop"
  /\ pass = 1
  /\ nextUrl = FirstUrl
  /\ pagesFetchedThisPass = 0
  /\ addedThisPass = 0
  /\ seenNextUrls = {}
  /\ byId = EmptyMap
  /\ fetchDebug = FetchDebug0
  /\ all = <<>>
  /\ data = <<>>
  /\ truncated = FALSE
  /\ reqIssued = 0
  /\ firstRet = EmptyMap
  /\ lateDup = FALSE
  /\ reqThisPass = EmptyMap
  /\ reqPerPass = <<>>
  /\ HcIdle /\ TarIdle /\ RecIdle /\ ShIdle /\ EnrIdle /\ ValIdle /\ SumIdle /\ FilIdle

(***************************************************************************)
(* Sweep paginator, api/ampeco-transactions.js.                            *)
(***************************************************************************)
(* without the early stop on a pass that added nothing *)
SweepEndPassNoEarlyStop(pf, added, m, fd) ==
  LET fd1 == [fd EXCEPT
                !.hitMaxPages = @ \/ (pf >= maxPages),
                !.hitMaxItems = @ \/ (Cardinality(DOMAIN m) >= maxItems),
                !.passes = Append(@, [pass |-> pass, pagesFetchedThisPass |-> pf,
                                      addedThisPass |-> added,
                                      totalUniqueSoFar |-> Cardinality(DOMAIN m)])]
  IN /\ fetchDebug' = fd1
     /\ byId' = m
     /\ IF pass + 1 > sweepPasses
          THEN /\ pc' = "done"
               /\ pagesFetchedThisPass' = pf
               /\ addedThisPass' = added
               /\ UNCHANGED <<pass, seenNextUrls>>
          ELSE /\ pc' = "loop"
               /\ pass' = pass + 1
               /\ pagesFetchedThisPass' = 0
               /\ addedThisPass' = 0
               /\ seenNextUrls' = {}

(* the code after the while loop of one pass, up to the start of the next *)
SweepEndPass(pf, added, m, fd) ==
  LET fd1 == [fd EXCEPT
                !.hitMaxPages = @ \/ (pf >= maxPages),
                !.hitMaxItems = @ \/ (Cardinality(DOMAIN m) >= maxItems),
                !.passes = Append(@, [pass |-> pass, pagesFetchedThisPass |-> pf,
                                      addedThisPass |-> added,
                                      totalUniqueSoFar |-> Cardinality(DOMAIN m)])]
  IN /\ fetchDebug' = fd1
     /\ byId' = m
     /\ IF added = 0 \/ pass + 1 > sweepPasses
          THEN /\ pc' = "done"
               /\ pagesFetchedThisPass' = pf
               /\ addedThisPass' = added
               /\ UNCHANGED <<pass, seenNextUrls>>
          ELSE /\ pc' = "loop"
               /\ pass' = pass + 1
               /\ pagesFetchedThisPass' = 0
               /\ addedThisPass' = 0
               /\ seenNextUrls' = {}

(* history: one more request for URL u in the current pass *)
NoteRequest(b, u) ==
  [x \in DOMAIN b \cup {u} |-> IF x \in DOMAIN b THEN (IF x = u THEN b[x] + 1 ELSE b[x]) ELSE 1]

RECURSIVE RequestsIn(_)
RequestsIn(b) ==
  IF DOMAIN b = {} THEN 0
  ELSE LET u == CHOOSE x \in DOMAIN b : TRUE
       IN b[u] + RequestsIn([x \in DOMAIN b \ {u} |-> b[x]])

(* history: the pass is over *)
EndPassLog ==
  /\ reqPerPass' = Append(reqPerPass, RequestsIn(reqThisPass))
  /\ reqThisPass' = EmptyMap

(* the cycle guard never fires *)
SeenBeforeNever == FALSE

(* seenNextUrls.has(loopKey) *)
SeenBefore == nextUrl \in seenNextUrls

SweepCondOffByOne ==
  /\ nextUrl # NoUrl
  /\ pagesFetchedThisPass + 1 < maxPages
  /\ Cardinality(DOMAIN byId) < maxItems

SweepCond ==
  /\ nextUrl # NoUrl
  /\ pagesFetchedThisPass < maxPages
  /\ Cardinality(DOMAIN byId) < maxItems

(* an iteration starts: counters, cycle guard, request *)
SweepIssue ==
  /\ handler = "sweep" /\ pc = "loop" /\ SweepCond
  /\ LET fd == [fetchDebug EXCEPT !.pagesFetchedTotal = @ + 1]
         pf == pagesFetchedThisPass + 1
     IN IF SeenBefore
          THEN /\ SweepEndPass(pf, addedThisPass, byId,
                               [fd EXCEPT !.loopBreaks = @ + 1])
               /\ nextUrl' = IF pc' = "loop" THEN FirstUrl ELSE nextUrl
               /\ EndPassLog
               /\ UNCHANGED <<reqIssued>>
          ELSE /\ pagesFetchedThisPass' = pf
               /\ reqThisPass' = NoteRequest(reqThisPass, nextUrl)
               /\ UNCHANGED reqPerPass
               /\ fetchDebug' = fd
               /\ seenNextUrls' = seenNextUrls \cup {nextUrl}
               /\ pc' = "await"
               /\ reqIssued' = reqIssued + 1
               /\ UNCHANGED <<pass, nextUrl, addedThisPass, byId>>
  /\ UNCHANGED nonPagVars
  /\ UNCHANGED <<handler, upstream, perPage, maxPages, maxItems, sweepPasses,
                 all, data, truncated, firstRet, lateDup>>

(* the while condition is false *)
SweepLoopExit ==
  /\ handler = "sweep" /\ pc = "loop" /\ ~SweepCond
  /\ SweepEndPass(pagesFetchedThisPass, addedThisPass, byId, fetchDebug)
  /\ nextUrl' = IF pc' = "loop" THEN FirstUrl ELSE nextUrl
  /\ EndPassLog
  /\ UNCHANGED nonPagVars
  /\ UNCHANGED <<handler, upstream, perPage, maxPages, maxItems, sweepPasses,
                 all, data, truncated, reqIssued, firstRet, lateDup>>

(* fetchJson returns a page *)
SweepResponse ==
  /\ handler = "sweep" /\ pc = "await"
  /\ \E resp \in Responses(handler, upstream, perPage, nextUrl) :
       LET mr == MergeRows(byId, addedThisPass, resp.rows, maxItems)
           nx == normalizeNextUrl(resp.next)
       IN /\ firstRet' = NoteFirst(firstRet, resp.rows)
          /\ lateDup' = (lateDup \/ HasLateDup(firstRet, resp.rows))
          /\ IF nx = NoUrl
               THEN /\ SweepEndPass(pagesFetchedThisPass, mr.added, mr.m, fetchDebug)
                    /\ nextUrl' = IF pc' = "loop" THEN FirstUrl ELSE NoUrl
                    /\ EndPassLog
               ELSE /\ byId' = mr.m
                    /\ addedThisPass' = mr.added
                    /\ nextUrl' = nx
                    /\ pc' = "loop"
                    /\ UNCHANGED <<pass, pagesFetchedThisPass, seenNextUrls, fetchDebug>>
                    /\ UNCHANGED pagHist
  /\ UNCHANGED nonPagVars
  /\ UNCHANGED <<handler, upstream, perPage, maxPages, maxItems, sweepPasses,
                 all, data, truncated, reqIssued>>

(* fetchJson throws: the handler's catch answers 500 *)
PageFails ==
  /\ pc = "await"
  /\ pc' = "failed"
  /\ UNCHANGED nonPagVars
  /\ UNCHANGED pagHist
  /\ UNCHANGED <<handler, upstream, perPage, maxPages, maxItems, sweepPasses,
                 pass, nextUrl, pagesFetchedThisPass, addedThisPass, seenNextUrls,
                 byId, fetchDebug, all, data, truncated, reqIssued, firstRet, lateDup>>

(***************************************************************************)
(* Simple capped paginator (the plain transactions handlers).              *)
(***************************************************************************)
SimpleCond ==
  /\ nextUrl # NoUrl
  /\ pagesFetchedThisPass < maxPages
  /\ Len(all) < maxItems

(* const data = all.slice(0, maxItems); truncated: all.length > maxItems *)
SimpleFinish(a) ==
  /\ data' = SubSeq(a, 1, Min2(Len(a), maxItems))
  /\ truncated' = (Len(a) > maxItems)
  /\ pc' = "done"

SimpleIssue ==
  /\ handler = "simple" /\ pc = "loop" /\ SimpleCond
  /\ pagesFetchedThisPass' = pagesFetchedThisPass + 1
  /\ pc' = "await"
  /\ reqIssued' = reqIssued + 1
  /\ UNCHANGED nonPagVars
  /\ UNCHANGED pagHist
  /\ UNCHANGED <<handler, upstream, perPage, maxPages, maxItems, sweepPasses,
                 pass, nextUrl, addedThisPass, seenNextUrls, byId, fetchDebug,
                 all, data, truncated, firstRet, lateDup>>

SimpleLoopExit ==
  /\ handler = "simple" /\ pc = "loop" /\ ~SimpleCond
  /\ SimpleFinish(all)
  /\ UNCHANGED nonPagVars
  /\ UNCHANGED pagHist
  /\ UNCHANGED <<handler, upstream, perPage, maxPages, maxItems, sweepPasses,
                 pass, nextUrl, pagesFetchedThisPass, addedThisPass, seenNextUrls,
                 byId, fetchDebug, all, reqIssued, firstRet, lateDup>>

SimpleResponse ==
  /\ handler = "simple" /\ pc = "await"
  /\ \E resp \in Responses(handler, upstream, perPage, nextUrl) :
       LET a == all \o resp.rows
           nx == linksNext(resp.next)
       IN /\ all' = a
          /\ nextUrl' = nx
          /\ IF nx = NoUrl
               THEN SimpleFinish(a)
               ELSE /\ pc' = "loop"
                    /\ UNCHANGED <<data, truncated>>
  /\ UNCHANGED nonPagVars
  /\ UNCHANGED pagHist
  /\ UNCHANGED <<handler, upstream, perPage, maxPages, maxItems, sweepPasses,
                 pass, pagesFetchedThisPass, addedThisPass, seenNextUrls, byId,
                 fetchDebug, reqIssued, firstRet, lateDup>>

(***************************************************************************)
(* Session paginators: while (true) { fetch; push; if (!next) break }      *)
(* (fetchAllSessionsForChargePoint, listPagedSessions,                     *)
(* listAllSessionsForStation, fetchAllSessionsForStation).                 *)
(***************************************************************************)
SessIssue ==
  /\ handler = "sessions" /\ pc = "loop"
  /\ pc' = "await"
  /\ UNCHANGED nonPagVars
  /\ UNCHANGED pagHist
  /\ UNCHANGED <<handler, upstream, perPage, maxPages, maxItems, sweepPasses,
                 pass, nextUrl, pagesFetchedThisPass, addedThisPass, seenNextUrls,
                 byId, fetchDebug, all, data, truncated, reqIssued, firstRet, lateDup>>

SessResponse ==
  /\ handler = "sessions" /\ pc = "await"
  /\ \E resp \in Responses(handler, upstream, perPage, nextUrl) :
       /\ Len(all) + Len(resp.rows) <= MaxN + MaxAll
       /\ all' = all \o resp.rows
       /\ IF resp.next = NoUrl \/ resp.next = BlankUrl
            THEN /\ pc' = "done"
                 /\ data' = all'
                 /\ UNCHANGED nextUrl
            ELSE /\ pc' = "loop"
                 /\ nextUrl' = resp.next
                 /\ UNCHANGED data
  /\ UNCHANGED nonPagVars
  /\ UNCHANGED pagHist
  /\ UNCHANGED <<handler, upstream, perPage, maxPages, maxItems, sweepPasses,
                 pass, pagesFetchedThisPass, addedThisPass, seenNextUrls, byId,
                 fetchDebug, truncated, reqIssued, firstRet, lateDup>>

PagNext ==
  \/ SweepIssue
  \/ SweepLoopExit
  \/ SweepResponse
  \/ SimpleIssue
  \/ SimpleLoopExit
  \/ SimpleResponse
  \/ SessIssue
  \/ SessResponse
  \/ PageFails

PagSpec == PagInit /\ [][PagNext]_vars

(* each request that is issued is answered, and the handler keeps running *)
PagLiveSpec == PagInit /\ [][PagNext]_vars /\ WF_vars(PagNext)

(***************************************************************************)
(* Properties of the paginators.                                           *)
(***************************************************************************)
IsDataset == upstream.kind = "dataset"
DatasetRecords(n) == [k \in 1..n |-> Rec(k, 1)]

(* C1: every pagination loop (sweep, simple, session paginators) terminates
   for every upstream behaviour, each single request returning: the
   paginator eventually reaches its end (result or failure). *)
C1_EveryPaginatorTerminates == <>(pc \in {"done", "failed"})

(* C2: against a static dataset of N records with distinct ids, served
   perPage per page, with perPage * maxPages >= N and the item cap not
   below N, the transaction paginator returns exactly the N records, each
   once. *)
C2_DatasetReturnedExactlyOnce ==
  (/\ pc = "done" /\ IsDataset /\ handler \in {"sweep", "simple"}
   /\ perPage * maxPages >= upstream.n /\ maxItems >= upstream.n)
  => IF handler = "sweep"
       THEN byId = DatasetRecords(upstream.n)
       ELSE data = DatasetRecords(upstream.n)

C2_Witness ==
  /\ pc = "done" /\ IsDataset /\ handler = "sweep"
  /\ upstream.n = MaxN /\ perPage < upstream.n
  /\ perPage * maxPages >= upstream.n /\ maxItems >= upstream.n
  /\ reqIssued >= 2

(* C3: against a static dataset of N records with perPage * maxPages >= N
   the truncation indicator (truncated of the simple paginator, hitMaxItems
   of the sweep paginator) is true if and only if maxItems < N. *)
C3_TruncatedIffCapBelowN ==
  (/\ pc = "done" /\ IsDataset /\ handler \in {"sweep", "simple"}
   /\ perPage * maxPages >= upstream.n)
  => ((IF handler = "sweep" THEN fetchDebug.hitMaxItems ELSE truncated)
        <=> (maxItems < upstream.n))

(* C4: the sweep accumulator holds each record id at most once, under its
   own id, and the record it holds for an id is the first one the upstream
   returned for that id over all pages and passes. *)
C4_FirstOccurrenceWins ==
  handler = "sweep" =>
    \A i \in DOMAIN byId :
      /\ byId[i].id = i
      /\ i \in DOMAIN firstRet
      /\ byId[i] = firstRet[i]

C4_Witness ==
  /\ handler = "sweep" /\ pc = "done" /\ lateDup /\ pass >= 2
  /\ Cardinality(DOMAIN byId) >= 2

(* C5: a sweep pass that added zero new ids is the last pass (the sweep is
   over once it is recorded, so no later request is issued), and the
   number of passes never exceeds sweepPasses. *)
C5_ZeroPassIsLast ==
  handler = "sweep" =>
    /\ pass <= sweepPasses
    /\ Len(fetchDebug.passes) <= sweepPasses
    /\ \A k \in 1..Len(fetchDebug.passes) :
         fetchDebug.passes[k].addedThisPass = 0
           => (k = Len(fetchDebug.passes) /\ pc = "done")

C5_Witness ==
  /\ handler = "sweep" /\ pc = "done"
  /\ Len(fetchDebug.passes) = 2 /\ sweepPasses = 3
  /\ fetchDebug.passes[1].addedThisPass > 0
  /\ fetchDebug.passes[2].addedThisPass = 0
  /\ fetchDebug.passes[2].pagesFetchedThisPass > 0

(* C23: within one pass of the sweep no page URL is requested twice; when
   the next pointer is a URL already requested in this pass, the pass ends
   with no request and no failure, and the records stay. *)
C23_NoUrlTwicePerPass ==
  [][handler = "sweep" =>
       /\ \A u \in DOMAIN reqThisPass' : reqThisPass'[u] <= 1
       /\ (pc = "loop" /\ SweepCond /\ nextUrl \in DOMAIN reqThisPass) =>
            /\ reqIssued' = reqIssued
            /\ pc' \in {"loop", "done"}
            /\ Len(fetchDebug'.passes) = Len(fetchDebug.passes) + 1
            /\ byId' = byId]_vars

C23_Witness ==
  /\ handler = "sweep" /\ pc = "done"
  /\ fetchDebug.loopBreaks >= 1
  /\ reqIssued >= 2
  /\ Cardinality(DOMAIN byId) >= 1

(* C26: the sweep never holds more than maxItems records and never sends
   more than sweepPasses * maxPages page requests; the data a simple
   paginator returns is at most maxItems long. *)
C26_CapsBoundWork ==
  /\ handler = "sweep" =>
       /\ Cardinality(DOMAIN byId) <= maxItems
       /\ reqIssued <= sweepPasses * maxPages
  /\ handler = "simple" =>
       /\ Len(data) <= maxItems
       /\ reqIssued <= maxPages

C26_Witness ==
  /\ handler = "sweep" /\ pc = "done"
  /\ upstream.kind = "dataset" /\ upstream.n > maxItems
  /\ Cardinality(DOMAIN byId) = maxItems
  /\ sweepPasses > 1 /\ maxPages > 1

(* C27: the debug counters of the sweep are the requests sent:
   pagesFetchedTotal is the number of page requests, and the
   pagesFetchedThisPass of every finished pass is the number of requests of
   that pass. *)
C27_CountersAreRequests ==
  handler = "sweep" =>
    /\ fetchDebug.pagesFetchedTotal = reqIssued
    /\ Len(fetchDebug.passes) = Len(reqPerPass)
    /\ \A k \in 1..Len(reqPerPass) :
         fetchDebug.passes[k].pagesFetchedThisPass = reqPerPass[k]

(***************************************************************************)
(* Retrying HTTP clients.                                                  *)
(*   "fetchJson"          api/ampeco-transactions.js: controller and timer *)
(*                        created inside the retry loop                    *)
(*   "fetchJsonShared"    the enrichment handlers: controller and timer    *)
(*                        created once, before the retry loop              *)
(*   "fetchJsonWithRetry" api/ampeco-sessions.js                           *)
(***************************************************************************)
Clients == {"fetchJson", "fetchJsonShared", "fetchJsonWithRetry"}
FetchJsonAttempts == 4       \* for (let attempt = 1; attempt <= 4; attempt++)
Retries == 4                 \* retries = 4: for (attempt = 0; attempt <= retries; ...)

(* what one request can come back with *)
Outcomes == {"ok", "nonjson", "4xx", "429", "5xx", "neterr"}
Retryable == {"429", "5xx"}

ReqNo == Len(reqLog) + 1     \* number of the request in flight / about to be sent

HcInit ==
  /\ client \in Clients
  /\ hcPc = "top"
  /\ attempt = IF client = "fetchJsonWithRetry" THEN 0 ELSE 1
  /\ controller = IF client = "fetchJsonShared" THEN 1 ELSE 0
  /\ timers = IF client = "fetchJsonShared" THEN {[born |-> 1, ctrl |-> 1]} ELSE {}
  /\ abortedCtrls = {}
  /\ reqLog = <<>>
  /\ lastErr = 0
  /\ thrown = 0
  /\ aborts = {}
  /\ PagIdle /\ TarIdle /\ RecIdle /\ ShIdle /\ EnrIdle /\ ValIdle /\ SumIdle /\ FilIdle

(* top of the loop body: (controller, timer,) fetch *)
HcStart ==
  /\ hcPc = "top"
  /\ \/ /\ client = "fetchJson" /\ attempt <= FetchJsonAttempts
        /\ controller' = ReqNo
        /\ timers' = {[born |-> ReqNo, ctrl |-> ReqNo]}
        /\ hcPc' = "fetching"
        /\ UNCHANGED <<reqLog, thrown, aborts>>
     \/ /\ client = "fetchJsonWithRetry" /\ attempt <= Retries
        /\ controller' = ReqNo
        /\ timers' = {[born |-> ReqNo, ctrl |-> ReqNo]}
        /\ hcPc' = "fetching"
        /\ UNCHANGED <<reqLog, thrown, aborts>>
     \/ /\ client = "fetchJsonShared" /\ attempt <= FetchJsonAttempts
        /\ IF controller \in abortedCtrls
             THEN \* fetch with an aborted signal rejects; finally clears the timer
                  /\ reqLog' = Append(reqLog, "abort")
                  /\ aborts' = aborts \cup {<<1, ReqNo>>}
                  /\ thrown' = ReqNo
                  /\ hcPc' = "failed"
                  /\ timers' = {}
             ELSE /\ hcPc' = "fetching"
                  /\ UNCHANGED <<reqLog, thrown, aborts, timers>>
        /\ UNCHANGED controller
  /\ UNCHANGED <<client, attempt, abortedCtrls, lastErr>>
  /\ UNCHANGED nonHcVars

(* fetchJsonWithRetry: the loop is over, throw lastErr *)
HcGiveUp ==
  /\ hcPc = "top" /\ client = "fetchJsonWithRetry" /\ attempt > Retries
  /\ hcPc' = "failed"
  /\ thrown' = lastErr
  /\ UNCHANGED <<client, attempt, controller, abortedCtrls, timers, reqLog, lastErr, aborts>>
  /\ UNCHANGED nonHcVars

(* the body of the loop after the response of the request in flight *)
HcAfterResponse(o) ==
  IF client = "fetchJsonWithRetry"
    THEN \* clearTimeout(t); a throw inside try lands in the catch of the same loop body
         /\ timers' = {}
         /\ IF o = "ok"
              THEN /\ hcPc' = "returned" /\ UNCHANGED lastErr
              ELSE /\ hcPc' = "sleeping" /\ lastErr' = ReqNo
         /\ UNCHANGED thrown
    ELSE /\ IF o = "ok"
              THEN /\ hcPc' = "returned" /\ timers' = {} /\ UNCHANGED thrown
              ELSE IF o \in Retryable /\ attempt # FetchJsonAttempts
                THEN /\ hcPc' = "sleeping" /\ UNCHANGED <<timers, thrown>>
                ELSE /\ hcPc' = "failed" /\ thrown' = ReqNo /\ timers' = {}
         /\ UNCHANGED lastErr

HcRespond ==
  /\ hcPc = "fetching"
  /\ \E o \in Outcomes :
       /\ reqLog' = Append(reqLog, o)
       /\ HcAfterResponse(o)
  /\ UNCHANGED <<client, attempt, controller, abortedCtrls, aborts>>
  /\ UNCHANGED nonHcVars

(* setTimeout(() => controller.abort(), ...) expires *)
HcTimerFire ==
  /\ hcPc \in {"fetching", "sleeping"}
  /\ \E tm \in timers :
       /\ abortedCtrls' = abortedCtrls \cup {tm.ctrl}
       /\ IF hcPc = "fetching" /\ controller = tm.ctrl
            THEN \* the request in flight is aborted
                 /\ reqLog' = Append(reqLog, "abort")
                 /\ aborts' = aborts \cup {<<tm.born, ReqNo>>}
                 /\ timers' = {}
                 /\ IF client = "fetchJsonWithRetry"
                      THEN /\ hcPc' = "sleeping" /\ lastErr' = ReqNo /\ UNCHANGED thrown
                      ELSE /\ hcPc' = "failed" /\ thrown' = ReqNo /\ UNCHANGED lastErr
            ELSE /\ timers' = timers \ {tm}
                 /\ UNCHANGED <<reqLog, aborts, hcPc, lastErr, thrown>>
  /\ UNCHANGED <<client, attempt, controller>>
  /\ UNCHANGED nonHcVars

(* the backoff sleep is over: (finally,) attempt++ *)
HcWake ==
  /\ hcPc = "sleeping"
  /\ attempt' = attempt + 1
  /\ hcPc' = "top"
  /\ timers' = IF client = "fetchJson" THEN {} ELSE timers
  /\ UNCHANGED <<client, controller, abortedCtrls, reqLog, lastErr, thrown, aborts>>
  /\ UNCHANGED nonHcVars

HcNext ==
  \/ HcStart
  \/ HcGiveUp
  \/ HcRespond
  \/ HcTimerFire
  \/ HcWake

HcSpec == HcInit /\ [][HcNext]_vars

(***************************************************************************)
(* Properties of the retrying clients.                                     *)
(***************************************************************************)
ReqsSent == Len(reqLog) + (IF hcPc = "fetching" THEN 1 ELSE 0)

(* C6: a response with a non-retryable status (4xx other than 429) or a 2xx
   response whose body is not JSON is the last request of the call: no
   further attempt is issued and the call does not return a value. *)
C6_NonRetryableFailsImmediately ==
  \A k \in 1..Len(reqLog) :
    reqLog[k] \in {"4xx", "nonjson"}
      => (k = Len(reqLog) /\ hcPc \notin {"fetching", "returned"})

(* C7: one call issues at most 4 requests, issues request k+1 only if
   request k returned 429 or 5xx, and when every attempt returned 429 or
   5xx the call fails with the error of the last attempt. *)
C7_AtMostFourAttempts ==
  /\ ReqsSent <= 4
  /\ \A k \in 1..ReqsSent - 1 : reqLog[k] \in Retryable
  /\ (hcPc \in {"returned", "failed"} /\ \A k \in 1..Len(reqLog) : reqLog[k] \in Retryable)
       => (hcPc = "failed" /\ thrown = Len(reqLog))

(* C8: a timer aborts only the request of the attempt during which it was
   armed. *)
C8_TimerAbortsOwnAttemptOnly == \A a \in aborts : a[1] = a[2]

(***************************************************************************)
(* Tariff classifier.  Instants are whole minutes since 1970-01-01T00:00Z; *)
(* the classifiers read hours and minutes only, and every boundary they    *)
(* use falls on a whole minute.                                            *)
(***************************************************************************)
FirstYear == 2024            \* first year of the instants tried
NumYears == 2                \* number of years of instants tried
Years == FirstYear..(FirstYear + NumYears - 1)

(* minutes of the UTC day tried on each day: around 00:00, the 01:00 UTC
   switch, and the local 07:00 / 08:00 / 23:00 / 24:00 limits at +2 and +3 *)
HourSamples == {0, 1, 4, 5, 6, 12, 20, 21, 22, 24}
MinuteSamples == {h * 60 + e : h \in HourSamples, e \in {-1, 0, 1}} \cap (0..1439)

(* Date.UTC: days since the epoch of a proleptic Gregorian date *)
DaysFromCivil(y, m, d) ==
  LET yy == IF m <= 2 THEN y - 1 ELSE y
      era == yy \div 400
      yoe == yy - era * 400
      mp == IF m > 2 THEN m - 3 ELSE m + 9
      doy == (153 * mp + 2) \div 5 + d - 1
      doe == yoe * 365 + yoe \div 4 - yoe \div 100 + doy
  IN era * 146097 + doe - 719468

(* Date.UTC(year, monthIndex0, day, hour, minute), in minutes; day 0 is the
   day before the first of the month *)
DateUTC(y, mi0, d, h, mn) ==
  (DaysFromCivil(y, mi0 + 1, 1) + d - 1) * 1440 + h * 60 + mn

(* first minute of each year around the instants tried *)
YearStart == [y \in (FirstYear - 1)..(FirstYear + NumYears + 1) |-> DateUTC(y, 0, 1, 0, 0)]

getUTCFullYear(t) ==
  CHOOSE y \in (FirstYear - 1)..(FirstYear + NumYears) :
    YearStart[y] <= t /\ t < YearStart[y + 1]

getUTCDay(t) == ((t \div 1440) + 4) % 7          \* 0 = Sunday

getUTCDate(t) ==
  LET y == getUTCFullYear(t)
      mi0 == CHOOSE m \in 0..11 :
               DateUTC(y, m, 1, 0, 0) <= t /\ t < DateUTC(y, m + 1, 1, 0, 0)
  IN (t - DateUTC(y, mi0, 1, 0, 0)) \div 1440 + 1

(* lastDay = Date.UTC(year, monthIndex0 + 1, 0); lastDay.setUTCDate(date - dow) *)
lastSundayOfMonthUTC(year, monthIndex0) ==
  LET lastDay == DateUTC(year, monthIndex0 + 1, 0, 0, 0)
      dow == getUTCDay(lastDay)
  IN lastDay - dow * 1440

isSummerTimeEUInclusiveEnd(dateUtc) ==
  LET y == getUTCFullYear(dateUtc)
      marchLastSunday == lastSundayOfMonthUTC(y, 2)
      octLastSunday == lastSundayOfMonthUTC(y, 9)
      dstStart == DateUTC(y, 2, getUTCDate(marchLastSunday), 1, 0)
      dstEnd == DateUTC(y, 9, getUTCDate(octLastSunday), 1, 0)
  IN dateUtc >= dstStart /\ dateUtc <= dstEnd

isSummerTimeEU(dateUtc) ==
  LET y == getUTCFullYear(dateUtc)
      marchLastSunday == lastSundayOfMonthUTC(y, 2)
      octLastSunday == lastSundayOfMonthUTC(y, 9)
      dstStart == DateUTC(y, 2, getUTCDate(marchLastSunday), 1, 0)
      dstEnd == DateUTC(y, 9, getUTCDate(octLastSunday), 1, 0)
  IN dateUtc >= dstStart /\ dateUtc < dstEnd

(***************************************************************************)
(* Intl.DateTimeFormat with timeZone "Europe/Vilnius": UTC+2, and UTC+3    *)
(* from 01:00 UTC of the last Sunday of March to 01:00 UTC of the last     *)
(* Sunday of October.                                                      *)
(***************************************************************************)
DaysInMonth(y, m) ==
  (IF m = 12 THEN DaysFromCivil(y + 1, 1, 1) ELSE DaysFromCivil(y, m + 1, 1))
    - DaysFromCivil(y, m, 1)

LastSundayOf(y, m) ==
  CHOOSE d \in 1..DaysInMonth(y, m) :
    /\ (DaysFromCivil(y, m, d) + 4) % 7 = 0
    /\ d + 7 > DaysInMonth(y, m)

EuDstStart ==
  [y \in (FirstYear - 1)..(FirstYear + NumYears) |->
     DaysFromCivil(y, 3, LastSundayOf(y, 3)) * 1440 + 60]
EuDstEnd ==
  [y \in (FirstYear - 1)..(FirstYear + NumYears) |->
     DaysFromCivil(y, 10, LastSundayOf(y, 10)) * 1440 + 60]

VilniusDst(t) ==
  LET InYear(y) == EuDstStart[y] <= t /\ t < EuDstEnd[y] IN InYear(getUTCFullYear(t))

VilniusLocal(t) == t + (IF VilniusDst(t) THEN 180 ELSE 120)

(* hour, minute and offset name of vilniusParts; with hour12: false the
   midnight hour is printed "24" or "00", depending on the runtime *)
vilniusParts(t, h24) ==
  LET Parts(loc, dst) ==
        LET h == (loc % 1440) \div 60
        IN [hour |-> IF h = 0 /\ h24 THEN 24 ELSE h,
            minute |-> loc % 60,
            tzOffset |-> IF dst THEN "GMT+3" ELSE "GMT+2"]
  IN Parts(VilniusLocal(t), VilniusDst(t))

offsetToHHMM(tzOffsetStr) ==
  CASE tzOffsetStr = "GMT+3" -> "+03:00"
    [] tzOffsetStr = "GMT+2" -> "+02:00"
    [] OTHER -> "+00:00"

(* Mon: 1 .. Sun: 7 of the local date *)
weekdayVilnius(t) ==
  LET Num(dow) == IF dow = 0 THEN 7 ELSE dow IN Num(((VilniusLocal(t) \div 1440) + 4) % 7)

isSummerTimeVilnius(t, h24) == offsetToHHMM(vilniusParts(t, h24).tzOffset) = "+03:00"

tarifasFromVilniusTimeLateEnd(t, h24) ==
  LET Classify(wd, p, summer) ==
        IF wd = 6 \/ wd = 7 THEN "Naktinis"
        ELSE LET tt == p.hour * 60 + p.minute
                 dayStart == (IF summer THEN 8 ELSE 7) * 60
                 dayEnd == (IF summer THEN 24 ELSE 23) * 60
                 isDay == tt >= dayStart /\ tt <= Min2(dayEnd, 1440)
             IN IF isDay THEN "Dieninis" ELSE "Naktinis"
  IN Classify(weekdayVilnius(t), vilniusParts(t, h24), isSummerTimeVilnius(t, h24))

tarifasFromVilniusTime(t, h24) ==
  LET Classify(wd, p, summer) ==
        IF wd = 6 \/ wd = 7 THEN "Naktinis"
        ELSE LET tt == p.hour * 60 + p.minute
                 dayStart == (IF summer THEN 8 ELSE 7) * 60
                 dayEnd == (IF summer THEN 24 ELSE 23) * 60
                 isDay == tt >= dayStart /\ tt < Min2(dayEnd, 1440)
             IN IF isDay THEN "Dieninis" ELSE "Naktinis"
  IN Classify(weekdayVilnius(t), vilniusParts(t, h24), isSummerTimeVilnius(t, h24))

(* tarifas of the per-user report: weekdayNum(vilniusParts.wd), isSummerTimeEU *)
tarifas(dateUtc, h24) ==
  LET Classify(p, wd, summer) ==
        IF wd = 6 \/ wd = 7 THEN "Naktinis"
        ELSE LET mins == p.hour * 60 + p.minute
                 dayStart == (IF summer THEN 8 ELSE 7) * 60
                 dayEnd == (IF summer THEN 24 ELSE 23) * 60
             IN IF mins >= dayStart /\ mins < dayEnd THEN "Dieninis" ELSE "Naktinis"
  IN Classify(vilniusParts(dateUtc, h24), weekdayVilnius(dateUtc), isSummerTimeEU(dateUtc))

Instants ==
  {DateUTC(y, 0, 1, 0, 0) + d * 1440 + m :
     y \in Years, d \in 0..365, m \in MinuteSamples}

TarInit ==
  /\ instant \in Instants
  /\ labelVilnius = ""
  /\ labelEU = ""
  /\ summerEU = "unset"
  /\ PagIdle /\ HcIdle /\ RecIdle /\ ShIdle /\ EnrIdle /\ ValIdle /\ SumIdle /\ FilIdle

CallTarifasFromVilniusTime ==
  /\ labelVilnius = ""
  /\ \E h24 \in BOOLEAN : labelVilnius' = tarifasFromVilniusTime(instant, h24)
  /\ UNCHANGED <<instant, labelEU, summerEU>>
  /\ UNCHANGED nonTarVars

CallTarifas ==
  /\ labelEU = ""
  /\ \E h24 \in BOOLEAN : labelEU' = tarifas(instant, h24)
  /\ UNCHANGED <<instant, labelVilnius, summerEU>>
  /\ UNCHANGED nonTarVars

CallIsSummerTimeEU ==
  /\ summerEU = "unset"
  /\ summerEU' = IF isSummerTimeEU(instant) THEN "yes" ELSE "no"
  /\ UNCHANGED <<instant, labelVilnius, labelEU>>
  /\ UNCHANGED nonTarVars

TarNext ==
  \/ CallTarifasFromVilniusTime
  \/ CallTarifas
  \/ CallIsSummerTimeEU

TarSpec == TarInit /\ [][TarNext]_vars

(***************************************************************************)
(* Properties of the classifier.                                           *)
(***************************************************************************)
LocalWeekday(t) == (((VilniusLocal(t) \div 1440) + 3) % 7) + 1     \* Monday = 1
LocalMinuteOfDay(t) == VilniusLocal(t) % 1440

InDayWindow(t) ==
  /\ LocalWeekday(t) \in 1..5
  /\ IF VilniusDst(t)
       THEN 8 * 60 <= LocalMinuteOfDay(t) /\ LocalMinuteOfDay(t) < 24 * 60
       ELSE 7 * 60 <= LocalMinuteOfDay(t) /\ LocalMinuteOfDay(t) < 23 * 60

(* C9: both classifiers return "Dieninis" exactly when the Vilnius weekday
   is Monday..Friday and the local minute of the day lies in [08:00, 24:00)
   under DST or in [07:00, 23:00) outside DST, and "Naktinis" otherwise. *)
C9_TariffByLocalTime ==
  /\ labelVilnius # "" =>
       labelVilnius = (IF InDayWindow(instant) THEN "Dieninis" ELSE "Naktinis")
  /\ labelEU # "" =>
       labelEU = (IF InDayWindow(instant) THEN "Dieninis" ELSE "Naktinis")

(* a weekday, DST, exactly 08:00 local: the first minute of the day rate *)
C9_Witness ==
  /\ labelVilnius = "Dieninis" /\ labelEU = "Dieninis"
  /\ VilniusDst(instant) /\ LocalMinuteOfDay(instant) = 8 * 60
  /\ LocalWeekday(instant) = 1

(* C10: isSummerTimeEU(t) is true exactly when dstStart(y) <= t < dstEnd(y),
   y the UTC year of t, dstStart / dstEnd being 01:00 UTC of the last Sunday
   of March / October of y. *)
C10_SummerTimeWindow ==
  summerEU # "unset" =>
    (summerEU = "yes"
       <=> (/\ EuDstStart[getUTCFullYear(instant)] <= instant
            /\ instant < EuDstEnd[getUTCFullYear(instant)]))

(* isSummerTimeEU was called at dstStart itself *)
C10_Witness ==
  /\ summerEU = "yes"
  /\ instant = EuDstStart[getUTCFullYear(instant)]

(***************************************************************************)
(* Interval / period reconciler and the Excel builders of the sessions     *)
(* report, unnamed/part_000.  A charging period or clock-aligned sample is *)
(* represented by its start: an instant in minutes, or NoStart when the    *)
(* record has no start.                                                    *)
(***************************************************************************)
MaxSess == 2                 \* sessions of the station
MaxStarts == 1               \* charging periods / samples of a session
MaxOthers == 1               \* sessions of the other stations of the request

WindowStart == DateUTC(FirstYear, 9, 1, 6, 0)     \* startedAfter
WindowEnd == DateUTC(FirstYear, 10, 1, 6, 0)      \* startedBefore
NoStart == -1                                     \* null / missing start
StartVals == {NoStart, WindowStart - 120, WindowStart, WindowEnd}
StartLists == SeqsUpTo(StartVals, MaxStarts)

(* the fields of a normalized session the builders read *)
SessionOf(k, periods, clock) ==
  [sessionId |-> k, chargingPeriods |-> periods, clockAlignedEnergyConsumption |-> clock]


parseDateSafe(iso) == IF iso = NoStart THEN NoStart ELSE iso

inRange(d, start, end) ==
  d # NoStart /\ start # NoStart /\ end # NoStart /\ d >= start /\ d < end

(* "" of toVilniusIsoWithOffset *)
BlankIso == [date |-> 0, hour |-> 0, minute |-> 0, off |-> ""]

toVilniusIsoWithOffset(iso, h24) ==
  IF iso = NoStart THEN BlankIso
  ELSE LET Iso(p, loc) == [date |-> loc \div 1440, hour |-> p.hour,
                            minute |-> p.minute, off |-> offsetToHHMM(p.tzOffset)]
       IN Iso(vilniusParts(iso, h24), VilniusLocal(iso))

(* tarifasFromVilniusTime with its guard: if (!isoString) return "" *)
tarifasFromVilniusIso(iso, h24) ==
  IF iso = NoStart THEN "" ELSE tarifasFromVilniusTime(iso, h24)

Tagged(list) == [k \in 1..Len(list) |-> [pos |-> k, start |-> list[k]]]

(* if (startD && endD && dStart && !inRange(dStart, startD, endD)) continue *)
Skipped(start) ==
  /\ parseDateSafe(WindowStart) # NoStart /\ parseDateSafe(WindowEnd) # NoStart
  /\ parseDateSafe(start) # NoStart
  /\ ~inRange(parseDateSafe(start), parseDateSafe(WindowStart), parseDateSafe(WindowEnd))

(* a detail row; from names the record the row was made of *)
DetailRow(list, sess, p, h24) ==
  [from |-> [list |-> list, sess |-> sess.sessionId, pos |-> p.pos],
   startedAt |-> toVilniusIsoWithOffset(p.start, h24),
   tarifas |-> tarifasFromVilniusIso(p.start, h24)]

SessionDetailRows(sess, h24) ==
  LET periods == sess.chargingPeriods
      clock == sess.clockAlignedEnergyConsumption
      keptP == SelectSeq(Tagged(periods), LAMBDA p : ~Skipped(p.start))
      keptC == SelectSeq(Tagged(clock), LAMBDA c : ~Skipped(c.start))
  IN IF Len(periods) > 0
     THEN [k \in 1..Len(keptP) |-> DetailRow("chargingPeriods", sess, keptP[k], h24)]
     ELSE [k \in 1..Len(keptC) |-> DetailRow("clock", sess, keptC[k], h24)]

RECURSIVE DetailRowsOf(_, _)
DetailRowsOf(sessions, h24) ==
  IF sessions = <<>> THEN <<>>
  ELSE SessionDetailRows(Head(sessions), h24) \o DetailRowsOf(Tail(sessions), h24)

(* rowsCount++ goes with every rows.push *)
Counted(rows) == [rows |-> rows, rowsCount |-> Len(rows)]

extractDetailRowsForStation(sessions, h24) == Counted(DetailRowsOf(sessions, h24))

NoSessionsRow ==
  [from |-> [list |-> "none", sess |-> 0, pos |-> 0],
   startedAt |-> BlankIso, tarifas |-> "NO SESSIONS"]

(* makeExcel of lines 1069-1109: the station's detail rows *)
(* rows.length > 0 ? rows : [NO SESSIONS row] *)
RowsOrPlaceholder(rows) == IF Len(rows) > 0 THEN rows ELSE <<NoSessionsRow>>

makeExcel(sessions, h24) ==
  RowsOrPlaceholder(extractDetailRowsForStation(sessions, h24).rows)

RECURSIVE PeriodRowsOf(_, _)
PeriodRowsOf(sessions, h24) ==
  IF sessions = <<>> THEN <<>>
  ELSE LET sess == Head(sessions)
           ps == Tagged(sess.chargingPeriods)
       IN [k \in 1..Len(ps) |-> DetailRow("chargingPeriods", sess, ps[k], h24)]
          \o PeriodRowsOf(Tail(sessions), h24)

(* makeExcelPeriodsOnly of lines 341-377 *)
makeExcelPeriodsOnly(sessions, h24) == RowsOrPlaceholder(PeriodRowsOf(sessions, h24))

(* a row of the clock-aligned sheet: no tarifas column, periodStart as received *)
ClockRow(list, sess, pos, start) ==
  [from |-> [list |-> list, sess |-> sess.sessionId, pos |-> pos], periodStart |-> start]

RECURSIVE ClockRowsOf(_)
ClockRowsOf(sessions) ==
  IF sessions = <<>> THEN <<>>
  ELSE LET sess == Head(sessions)
           clock == sess.clockAlignedEnergyConsumption
       IN (IF Len(clock) = 0 THEN <<ClockRow("session", sess, 0, NoStart)>>
           ELSE [k \in 1..Len(clock) |-> ClockRow("clock", sess, k, clock[k])])
          \o ClockRowsOf(Tail(sessions))

(* makeExcel of lines 1525-1600 *)
makeExcelClock(sessions) == ClockRowsOf(sessions)

RecInit ==
  /\ \E n \in 0..MaxSess : \E f \in [1..n -> StartLists \X StartLists] :
       recSessions = [k \in 1..n |-> SessionOf(k, f[k][1], f[k][2])]
  /\ recCall = "none"
  /\ recRows = <<>>
  /\ recRowsCount = 0
  /\ recSheet = "none"
  /\ recTotal = 0
  /\ PagIdle /\ HcIdle /\ TarIdle /\ ShIdle /\ EnrIdle /\ ValIdle /\ SumIdle /\ FilIdle

CallExtractDetailRows ==
  /\ recCall = "none"
  /\ \E h24 \in BOOLEAN : \E r \in {extractDetailRowsForStation(recSessions, h24)} :
       recRows' = r.rows /\ recRowsCount' = r.rowsCount
  /\ recCall' = "extractDetailRowsForStation"
  /\ UNCHANGED <<recSessions, recSheet, recTotal>>
  /\ UNCHANGED nonRecVars

CallMakeExcel ==
  /\ recCall = "none"
  /\ \E h24 \in BOOLEAN :
       /\ recRows' = makeExcel(recSessions, h24)
       /\ recRowsCount' = extractDetailRowsForStation(recSessions, h24).rowsCount
  /\ recCall' = "makeExcel"
  /\ recSheet' = "station"
  /\ UNCHANGED <<recSessions, recTotal>>
  /\ UNCHANGED nonRecVars

CallMakeExcelPeriodsOnly ==
  /\ recCall = "none"
  /\ \E h24 \in BOOLEAN : recRows' = makeExcelPeriodsOnly(recSessions, h24)
  /\ recCall' = "makeExcelPeriodsOnly"
  /\ recSheet' = "station"
  /\ UNCHANGED <<recSessions, recRowsCount, recTotal>>
  /\ UNCHANGED nonRecVars

(* format=xlsx of the third handler: the Info workbook when the request has
   no session at all (lines 1672-1706), else a sheet per station *)
CallMakeExcelClock ==
  /\ recCall = "none"
  /\ \E others \in 0..MaxOthers :
       /\ recTotal' = Len(recSessions) + others
       /\ IF recTotal' = 0
          THEN recSheet' = "info" /\ recRows' = <<>>
          ELSE recSheet' = "station" /\ recRows' = makeExcelClock(recSessions)
  /\ recCall' = "makeExcelClock"
  /\ UNCHANGED <<recSessions, recRowsCount>>
  /\ UNCHANGED nonRecVars

RecNext ==
  \/ CallExtractDetailRows
  \/ CallMakeExcel
  \/ CallMakeExcelPeriodsOnly
  \/ CallMakeExcelClock

RecSpec == RecInit /\ [][RecNext]_vars

(***************************************************************************)
(* Properties of the reconciler and the Excel builders.                    *)
(***************************************************************************)
(* start of the period or sample a row was made of *)
SourceStart(sessions, from) ==
  LET sess == CHOOSE x \in {sessions[k] : k \in 1..Len(sessions)} : x.sessionId = from.sess
  IN IF from.list = "chargingPeriods" THEN sess.chargingPeriods[from.pos]
     ELSE sess.clockAlignedEnergyConsumption[from.pos]

InWindow(t) == t # NoStart /\ WindowStart <= t /\ t < WindowEnd

(* C11: every detail row of extractDetailRowsForStation is made of a
   charging period or clock-aligned sample whose start t satisfies
   windowStart <= t < windowEnd; a record without a start inside the window
   produces no row. *)
C11_RowsStartInsideWindow ==
  recCall = "extractDetailRowsForStation" =>
    \A k \in 1..Len(recRows) : InWindow(SourceStart(recSessions, recRows[k].from))

IsPlaceholder(r) == "tarifas" \in DOMAIN r /\ r.tarifas = "NO SESSIONS"

(* periods or samples of a session that qualify for the report of a builder *)
QualifyingOf(call, sess) ==
  LET inWin(list) == Len(SelectSeq(list, InWindow))
  IN CASE call = "makeExcel" ->
            IF Len(sess.chargingPeriods) > 0 THEN inWin(sess.chargingPeriods)
            ELSE inWin(sess.clockAlignedEnergyConsumption)
       [] call = "makeExcelPeriodsOnly" -> Len(sess.chargingPeriods)
       [] OTHER -> Len(sess.clockAlignedEnergyConsumption)

RECURSIVE Qualifying(_, _)
Qualifying(call, sessions) ==
  IF sessions = <<>> THEN 0
  ELSE QualifyingOf(call, Head(sessions)) + Qualifying(call, Tail(sessions))

(* C15: in every spreadsheet report a station's sheet never has zero detail
   rows, a station with zero qualifying periods or samples gets exactly the
   one "NO SESSIONS" row with its other fields empty, and the "NO SESSIONS"
   row never stands next to a real detail row. *)
C15_NoSessionsPlaceholder ==
  recSheet = "station" =>
    /\ Len(recRows) > 0
    /\ (Qualifying(recCall, recSessions) = 0 => recRows = <<NoSessionsRow>>)
    /\ ((\E k \in 1..Len(recRows) : IsPlaceholder(recRows[k])) => Len(recRows) = 1)

(***************************************************************************)
(* Sessions report handler for one station, unnamed/part_000: the          *)
(* INTERNAL_API_KEY check, the date-filtered listing, the best-effort      *)
(* listing of active sessions and the merge by session id (lines           *)
(* 1111-1236), the consumption-stats enrichment, the normalisation and the *)
(* station's sheet.  The handler of lines 379-484 is the same without the  *)
(* active listing.                                                         *)
(***************************************************************************)
MaxListPages == 2            \* pages of the active listing
EnrichThreshold == 300       \* listingClock.length >= 300
Keys == 1..2                 \* key values; 1 is the configured secret
ShVariants == {"plain", "merge"}

UpSession(id, status, startedAt, periods, clock) ==
  [id |-> id, status |-> status, startedAt |-> startedAt,
   chargingPeriods |-> periods, clockAlignedEnergyConsumption |-> clock]

(* a long list of samples, all of them after the window *)
LongClock(n) == [k \in 1..n |-> WindowEnd]

(* sessions the upstream may hold for the station *)
SessionPool ==
  { UpSession(1, "finished", WindowStart, <<WindowStart>>, <<WindowStart>>),
    UpSession(2, "active", WindowStart - 120, <<WindowStart - 120>>,
              <<WindowStart - 120, WindowStart>>),
    UpSession(3, "active", WindowStart - 120, <<>>, <<WindowStart, WindowEnd>>),
    UpSession(4, "finished", WindowStart - 120, <<>>, LongClock(EnrichThreshold)),
    UpSession(5, "finished", WindowStart, <<>>, LongClock(EnrichThreshold - 1)) }

(* answers of the consumption-stats endpoint: a failure, a body without any
   of the three arrays, or the first array found *)
StatsClock == <<WindowStart - 120, WindowStart, WindowStart>>
StatsAnswers ==
  { [kind |-> "error", clock |-> <<>>], [kind |-> "noarray", clock |-> <<>>],
    [kind |-> "array", clock |-> <<>>], [kind |-> "array", clock |-> StatsClock] }

(* a listing returns the sessions in the upstream's order *)
RECURSIVE ListingOf(_)
ListingOf(S) ==
  IF S = {} THEN <<>>
  ELSE LET m == CHOOSE x \in S : \A y \in S : x.id <= y.id
       IN <<m>> \o ListingOf(S \ {m})

(* the upstream's filter[startedAfter] / filter[startedBefore] *)
StartedInRange(S) == {x \in S : WindowStart <= x.startedAt /\ x.startedAt < WindowEnd}

(* a check that reads the header only and lets a request without it pass *)
UnauthorizedHeaderOnly(key, hdr, qry) == key # 0 /\ hdr # 0 /\ hdr # key

(* String(got || "") !== String(internalKey), with got = header || query *)
Unauthorized(key, hdr, qry) ==
  LET got == IF hdr # 0 THEN hdr ELSE qry IN key # 0 /\ got # key

ShInit ==
  /\ shVariant \in ShVariants
  /\ internalKey \in {0, 1}
  /\ hdrKey \in {0} \cup Keys
  /\ qryKey \in {0} \cup Keys
  /\ shPc = "auth"
  /\ upSessions = {} /\ activeMode = "none" /\ shPages = 0
  /\ inRangeSessions = <<>> /\ mergedSessions = <<>> /\ enriched = <<>>
  /\ statsLog = <<>> /\ upRequests = 0 /\ httpStatus = 0 /\ shFormat = "none"
  /\ normalized = <<>> /\ reportRows = <<>>
  /\ PagIdle /\ HcIdle /\ TarIdle /\ RecIdle /\ EnrIdle /\ ValIdle /\ SumIdle /\ FilIdle

(* entry of the handler up to the first await: 401, or the first request of
   the date-filtered listing *)
ShAuth ==
  /\ shPc = "auth"
  /\ IF Unauthorized(internalKey, hdrKey, qryKey)
     THEN httpStatus' = 401 /\ shPc' = "done" /\ UNCHANGED upRequests
     ELSE shPc' = "listRange" /\ upRequests' = upRequests + 1 /\ UNCHANGED httpStatus
  /\ UNCHANGED <<shVariant, internalKey, hdrKey, qryKey, upSessions, activeMode, shPages,
                 inRangeSessions, mergedSessions, enriched, statsLog, shFormat,
                 normalized, reportRows>>
  /\ UNCHANGED nonShVars

(* Merge by session id: the first occurrence wins *)
RECURSIVE MergeById(_, _)
MergeById(list, seen) ==
  IF list = <<>> THEN <<>>
  ELSE LET x == Head(list)
       IN IF x.id \in seen THEN MergeById(Tail(list), seen)
          ELSE <<x>> \o MergeById(Tail(list), seen \cup {x.id})

(* the date-filtered listing fails: the handler answers 500 *)
ShListRangeFails ==
  /\ shPc = "listRange"
  /\ httpStatus' = 500 /\ shPc' = "done"
  /\ UNCHANGED <<shVariant, internalKey, hdrKey, qryKey, upSessions, activeMode, shPages,
                 inRangeSessions, mergedSessions, enriched, statsLog, upRequests,
                 shFormat, normalized, reportRows>>
  /\ UNCHANGED nonShVars

(* the date-filtered listing returns; the merge variant sends the first
   request of the active listing *)
ShListRangeReturns ==
  /\ shPc = "listRange"
  /\ \E S \in SUBSET SessionPool :
       /\ upSessions' = S
       /\ inRangeSessions' = ListingOf(StartedInRange(S))
  /\ IF shVariant = "merge"
     THEN /\ shPc' = "listActive" /\ upRequests' = upRequests + 1
          /\ UNCHANGED mergedSessions
     ELSE /\ shPc' = "enrich" /\ UNCHANGED upRequests
          /\ mergedSessions' = inRangeSessions'
  /\ UNCHANGED <<shVariant, internalKey, hdrKey, qryKey, activeMode, shPages, enriched,
                 statsLog, httpStatus, shFormat, normalized, reportRows>>
  /\ UNCHANGED nonShVars

(* a page of the active listing with a next cursor: the next page is asked *)
ShListActiveMore ==
  /\ shPc = "listActive"
  /\ shPages + 1 < MaxListPages
  /\ shPages' = shPages + 1
  /\ upRequests' = upRequests + 1
  /\ UNCHANGED <<shVariant, internalKey, hdrKey, qryKey, shPc, upSessions, activeMode,
                 inRangeSessions, mergedSessions, enriched, statsLog, httpStatus,
                 shFormat, normalized, reportRows>>
  /\ UNCHANGED nonShVars

(* the active listing ends: its last page, or an error on the page asked *)
ShListActiveEnds ==
  /\ shPc = "listActive"
  /\ \E mode \in {"supported", "ignored", "error"} :
       LET activeSessions ==
             CASE mode = "supported" -> ListingOf({x \in upSessions : x.status = "active"})
               [] mode = "ignored" -> ListingOf(upSessions)
               [] OTHER -> <<>>
       IN /\ activeMode' = mode
          /\ mergedSessions' = MergeById(inRangeSessions \o activeSessions, {})
  /\ shPages' = shPages + 1
  /\ shPc' = "enrich"
  /\ UNCHANGED <<shVariant, internalKey, hdrKey, qryKey, upSessions, inRangeSessions,
                 enriched, statsLog, upRequests, httpStatus, shFormat, normalized,
                 reportRows>>
  /\ UNCHANGED nonShVars

(* an enrichment that asks for every session *)
shouldTryAlways(x) == TRUE

(* status === "active" || listingClock.length >= 300 *)
shouldTry(x) ==
  x.status = "active" \/ Len(x.clockAlignedEnergyConsumption) >= EnrichThreshold

(* { ...s, _consumptionStatsClockAligned: clock } *)
WithStats(x, clock) ==
  [f \in DOMAIN x \cup {"consumptionStatsClockAligned"} |->
     IF f = "consumptionStatsClockAligned" THEN clock ELSE x[f]]

(* what the loop of enrichActiveSessionsConsumptionStats pushes for a session *)
EnrichedOf(x, ans) ==
  IF ans.kind = "array" THEN WithStats(x, ans.clock) ELSE x

(* one turn of the loop of enrichActiveSessionsConsumptionStats *)
ShEnrichStep ==
  /\ shPc = "enrich"
  /\ Len(enriched) < Len(mergedSessions)
  /\ LET x == mergedSessions[Len(enriched) + 1]
     IN IF shouldTry(x)
        THEN \E ans \in StatsAnswers :
               /\ enriched' = Append(enriched, EnrichedOf(x, ans))
               /\ statsLog' = Append(statsLog, [id |-> x.id, answer |-> ans])
               /\ upRequests' = upRequests + 1
        ELSE /\ enriched' = Append(enriched, x)
             /\ UNCHANGED <<statsLog, upRequests>>
  /\ UNCHANGED <<shVariant, internalKey, hdrKey, qryKey, shPc, upSessions, activeMode,
                 shPages, inRangeSessions, mergedSessions, httpStatus, shFormat,
                 normalized, reportRows>>
  /\ UNCHANGED nonShVars

normalizeSession(x) ==
  LET clockFromListing == x.clockAlignedEnergyConsumption
      clockFromStats == IF "consumptionStatsClockAligned" \in DOMAIN x
                        THEN x.consumptionStatsClockAligned ELSE <<>>
  IN [sessionId |-> x.id, status |-> x.status, startedAt |-> x.startedAt,
      chargingPeriods |-> x.chargingPeriods,
      clockAlignedEnergyConsumption |->
        IF Len(clockFromStats) > 0 THEN clockFromStats ELSE clockFromListing]

normalizeSessionsForN8n(sessions) ==
  [k \in 1..Len(sessions) |-> normalizeSession(sessions[k])]

(* the rest of the handler: normalisation and the response *)
ShRespond ==
  /\ shPc = "enrich"
  /\ Len(enriched) = Len(mergedSessions)
  /\ normalized' = normalizeSessionsForN8n(enriched)
  /\ \E format \in {"json", "xlsx"} : \E h24 \in BOOLEAN :
       /\ shFormat' = format
       /\ reportRows' =
            IF format # "xlsx" THEN <<>>
            ELSE IF shVariant = "merge" THEN makeExcel(normalized', h24)
            ELSE makeExcelPeriodsOnly(normalized', h24)
  /\ httpStatus' = 200
  /\ shPc' = "done"
  /\ UNCHANGED <<shVariant, internalKey, hdrKey, qryKey, upSessions, activeMode, shPages,
                 inRangeSessions, mergedSessions, enriched, statsLog, upRequests>>
  /\ UNCHANGED nonShVars

ShNext ==
  \/ ShAuth
  \/ ShListRangeFails
  \/ ShListRangeReturns
  \/ ShListActiveMore
  \/ ShListActiveEnds
  \/ ShEnrichStep
  \/ ShRespond

ShSpec == ShInit /\ [][ShNext]_vars

(***************************************************************************)
(* Properties of the sessions report handler.                              *)
(***************************************************************************)
IdsOf(list) == {list[k].id : k \in 1..Len(list)}

SampleRow(sessionId, pos) == [list |-> "clock", sess |-> sessionId, pos |-> pos]

(* C12: for an active session that started before the window and that the
   status=active listing returned, every clock-aligned sample of the session
   whose start lies in [windowStart, windowEnd) yields a detail row of the
   station's sheet, whatever else the session carries. *)
C12_ActiveSamplesInWindowReported ==
  (shVariant = "merge" /\ activeMode = "supported" /\ httpStatus = 200 /\ shFormat = "xlsx") =>
    \A k \in 1..Len(normalized) :
      LET x == normalized[k]
          clock == x.clockAlignedEnergyConsumption
      IN (x.status = "active" /\ x.startedAt < WindowStart) =>
           \A pos \in 1..Len(clock) :
             InWindow(clock[pos]) =>
               \E r \in 1..Len(reportRows) : reportRows[r].from = SampleRow(x.sessionId, pos)

(* C13: when the upstream does not support the status filter (an error on a
   page of the active listing, or a listing answered as if the filter were
   absent), the request does not fail and the merged sessions of the station
   are exactly the date-filtered ones. *)
C13_DegradesToDateFilteredSet ==
  (shVariant = "merge" /\ activeMode \in {"error", "ignored"}) =>
    /\ httpStatus # 500
    /\ IdsOf(mergedSessions) = IdsOf(inRangeSessions)

(* the answer the consumption-stats endpoint gave for a session, if asked *)
Asked(id) == \E j \in 1..Len(statsLog) : statsLog[j].id = id
AnswerFor(id) == statsLog[CHOOSE j \in 1..Len(statsLog) : statsLog[j].id = id].answer

(* C14: the consumption-stats endpoint is asked only for sessions that are
   active or carry at least 300 listing samples; a failure or an answer
   without a sample list leaves the session exactly as listed and does not
   fail the request; the output holds the same sessions in the same order;
   the normalized session takes the stats samples when that list is
   non-empty and the listing's samples otherwise. *)
C14_EnrichmentBestEffort ==
  /\ \A j \in 1..Len(statsLog) :
       \E k \in 1..Len(mergedSessions) :
         /\ mergedSessions[k].id = statsLog[j].id
         /\ \/ mergedSessions[k].status = "active"
            \/ Len(mergedSessions[k].clockAlignedEnergyConsumption) >= 300
  /\ Len(enriched) <= Len(mergedSessions)
  /\ \A k \in 1..Len(enriched) :
       /\ \A f \in DOMAIN mergedSessions[k] : enriched[k][f] = mergedSessions[k][f]
       /\ (~Asked(mergedSessions[k].id) \/ AnswerFor(mergedSessions[k].id).kind # "array")
            => enriched[k] = mergedSessions[k]
  /\ (Len(enriched) > 0 => httpStatus \in {0, 200})
  /\ (shPc = "done" /\ httpStatus = 200) =>
       /\ Len(normalized) = Len(mergedSessions)
       /\ \A k \in 1..Len(normalized) :
            LET x == mergedSessions[k]
                stats == IF Asked(x.id) /\ AnswerFor(x.id).kind = "array"
                         THEN AnswerFor(x.id).clock ELSE <<>>
            IN /\ normalized[k].sessionId = x.id
               /\ normalized[k].clockAlignedEnergyConsumption =
                    IF Len(stats) > 0 THEN stats ELSE x.clockAlignedEnergyConsumption

(* a request answered after one stats lookup failed, one returned an empty
   list, one returned samples, and one session was not looked up *)
C14_Witness ==
  /\ shPc = "done" /\ httpStatus = 200
  /\ \E j \in 1..Len(statsLog) : statsLog[j].answer.kind = "error"
  /\ \E j \in 1..Len(statsLog) : statsLog[j].answer = [kind |-> "array", clock |-> StatsClock]
  /\ \E j \in 1..Len(statsLog) :
       /\ statsLog[j].answer.kind = "noarray"
       /\ \E k \in 1..Len(mergedSessions) :
            /\ mergedSessions[k].id = statsLog[j].id
            /\ mergedSessions[k].status # "active"
  /\ \E k \in 1..Len(mergedSessions) : ~Asked(mergedSessions[k].id)

(* C20: with INTERNAL_API_KEY configured, a request that supplies no key or
   only keys different from it (x-api-key header, apiKey query parameter) is
   answered 401 and no upstream request is sent; without the secret
   configured the check is skipped. *)
C20_WrongKeyGets401 ==
  /\ (internalKey # 0 /\ hdrKey # internalKey /\ qryKey # internalKey /\ shPc # "auth")
       => (httpStatus = 401 /\ shPc = "done" /\ upRequests = 0)
  /\ (internalKey = 0 /\ shPc # "auth") => (httpStatus # 401 /\ upRequests > 0)

(* a request with a wrong header key and no query key was turned away *)
C20_Witness ==
  /\ internalKey # 0 /\ hdrKey \notin {0, internalKey} /\ qryKey = 0
  /\ httpStatus = 401 /\ upRequests = 0

\* ---------------------------------------------------------------------
\* Invoice enrichment and the worker pool
\*   "transactions": api/ampeco-transactions.js, one task per distinct user
\*   "unique":       unnamed/part_002, one task per distinct user
\*   "perTx":        unnamed/part_000 (transactions variant), one task per
\*                   filtered transaction
\* ---------------------------------------------------------------------

MaxTx == 3
MaxUsers == 2
MaxLimit == 2

EnrVariants == {"transactions", "unique", "perTx"}

\* A userId that encodeURIComponent rejects (a lone surrogate): building the
\* request URL throws URIError, outside the task's try block.
BadUserId == 0
UserIds == (1..MaxUsers) \cup {BadUserId}

\* What the invoice-details lookup answers: requireInvoice false without or
\* with an e-mail address, true, a null body, any other value (absent
\* included), or a failed request.
InvoiceAnswers == {"false", "falseEmail", "true", "null", "other", "error"}
ProfileAnswers == {"email", "noemail", "error"}

FalseAnswers == {"false", "falseEmail"}

AllowedUnlessTrue(details) == details # "true"

\* invoiceDetails?.requireInvoice === false
Allowed(details) == details \in FalseAnswers

PoolWorkersOneMore(lim) == 1..(lim + 1)

\* Array.from({ length: limit }, ...)
PoolWorkers(lim) == 1..lim

RECURSIVE UniqueTasksFrom(_, _, _)
UniqueTasksFrom(list, k, seen) ==
  IF k > Len(list) THEN <<>>
  ELSE IF list[k] \in seen THEN UniqueTasksFrom(list, k + 1, seen)
  ELSE <<[userId |-> list[k], tx |-> k]>>
         \o UniqueTasksFrom(list, k + 1, seen \cup {list[k]})

TasksOf(variant, list) ==
  IF variant = "perTx" THEN [k \in 1..Len(list) |-> [userId |-> list[k], tx |-> k]]
  ELSE UniqueTasksFrom(list, 1, {})

Unset == [r |-> "unset", tx |-> 0, userId |-> 0, allowed |-> FALSE, email |-> "",
          details |-> "null"]

Ready == [st |-> "ready", idx |-> 0]

PoolState ==
  [i |-> poolI, wk |-> wk, out |-> out, invoiceCache |-> invoiceCache,
   userCache |-> userCache, invoiceFetchErrors |-> invoiceFetchErrors,
   userFetchErrors |-> userFetchErrors, invoiceReqs |-> invoiceReqs,
   started |-> started, threw |-> threw, lookups |-> lookups]

\* the result stored at the first index
SettleAtFirst(S, w, idx, result) ==
  [S EXCEPT !.out[1] = result, !.wk[w] = Ready]

\* The task's promise resolves: out[idx] = await tasks[idx]()
Settle(S, w, idx, result) ==
  [S EXCEPT !.out[idx] = result, !.wk[w] = Ready]

\* The task's promise rejects: the catch of the pool.
Throw(S, w, idx) ==
  [S EXCEPT !.out[idx] = [Unset EXCEPT !.r = IF enrVariant = "perTx" THEN "error" ELSE "null"],
            !.threw = @ \cup {idx},
            !.wk[w] = Ready]

EmailOf(profile) == IF profile = "email" THEN "p" ELSE ""

UserResult(idx, details, email) ==
  [r |-> "value", tx |-> tasks[idx].tx, userId |-> tasks[idx].userId,
   allowed |-> TRUE, email |-> email, details |-> details]

\* the profile requested although invoice-details carries an e-mail address
AfterInvoiceAlwaysProfile(S, w, idx, details) ==
  LET u == tasks[idx].userId IN
  IF ~Allowed(details)
  THEN Settle(S, w, idx,
              IF enrVariant = "unique" THEN [Unset EXCEPT !.r = "null"]
              ELSE [UserResult(idx, details, "") EXCEPT !.allowed = FALSE])
  ELSE IF S.userCache[u] # "undef"
       THEN Settle(S, w, idx, UserResult(idx, details, EmailOf(S.userCache[u])))
  ELSE IF u = BadUserId THEN Throw(S, w, idx)
  ELSE [S EXCEPT !.wk[w] = [st |-> "profile", idx |-> idx]]

\* The per-user task once invoiceDetails is known.
AfterInvoice(S, w, idx, details) ==
  LET u == tasks[idx].userId IN
  IF ~Allowed(details)
  THEN Settle(S, w, idx,
              IF enrVariant = "unique" THEN [Unset EXCEPT !.r = "null"]
              ELSE [UserResult(idx, details, "") EXCEPT !.allowed = FALSE])
  ELSE IF details = "falseEmail" THEN Settle(S, w, idx, UserResult(idx, details, "i"))
  ELSE IF S.userCache[u] # "undef"
       THEN Settle(S, w, idx, UserResult(idx, details, EmailOf(S.userCache[u])))
  ELSE IF u = BadUserId THEN Throw(S, w, idx)
  ELSE [S EXCEPT !.wk[w] = [st |-> "profile", idx |-> idx]]

\* A task runs from its start to its first await (or to its end).
StartTask(S, w, idx) ==
  LET u == tasks[idx].userId IN
  IF S.invoiceCache[u] # "undef"
  THEN IF enrVariant = "perTx"
       THEN Settle(S, w, idx, [UserResult(idx, S.invoiceCache[u], "") EXCEPT !.allowed = FALSE])
       ELSE AfterInvoice(S, w, idx, S.invoiceCache[u])
  ELSE IF u = BadUserId THEN Throw(S, w, idx)
  ELSE [S EXCEPT !.invoiceReqs[u] = @ + 1,
                 !.wk[w] = [st |-> "invoice", idx |-> idx]]

\* The loop of the workers: the workers of the queue run, in turn, until
\* each one awaits a request or finds no task left.
RECURSIVE runWithConcurrency(_, _)
runWithConcurrency(S, queue) ==
  IF queue = <<>> THEN S
  ELSE LET w == Head(queue) IN
       IF S.i > Len(tasks)
       THEN runWithConcurrency([S EXCEPT !.wk[w] = [st |-> "done", idx |-> 0]], Tail(queue))
       ELSE LET idx == S.i
                S1 == [S EXCEPT !.i = idx + 1, !.started[idx] = @ + 1]
                S2 == StartTask(S1, w, idx)
            IN  IF S2.wk[w].st = "ready"
                THEN runWithConcurrency(S2, Append(Tail(queue), w))
                ELSE runWithConcurrency(S2, Tail(queue))

PoolDone(S) == \A w \in DOMAIN S.wk : S.wk[w].st = "done"

Item(k) == [tx |-> k, userId |-> filtered[k]]

RECURSIVE FilterSeq(_, _, _)
FilterSeq(n, k, keep) ==
  IF k > n THEN <<>>
  ELSE (IF k \in keep THEN <<k>> ELSE <<>>) \o FilterSeq(n, k + 1, keep)

\* The data of the response, from the results of the pool.
FinalData(S) ==
  LET n == Len(tasks)
      allowedUsers == {S.out[k].userId : k \in {j \in 1..n : S.out[j].r = "value" /\ S.out[j].allowed}}
      kept == IF enrVariant = "transactions"
              THEN FilterSeq(Len(filtered), 1, {k \in 1..Len(filtered) : filtered[k] \in allowedUsers})
              ELSE IF enrVariant = "unique"
              THEN FilterSeq(n, 1, {k \in 1..n : S.out[k].r = "value"})
              ELSE FilterSeq(n, 1, {k \in 1..n : S.out[k].r = "value" /\ Allowed(S.out[k].details)})
  IN  [j \in 1..Len(kept) |->
         IF enrVariant = "transactions" THEN Item(kept[j]) ELSE Item(tasks[kept[j]].tx)]

\* The handler goes on from the point where the pool has been left; when all
\* workers have returned it answers.
Continue(S) ==
  /\ poolI' = S.i /\ wk' = S.wk /\ out' = S.out
  /\ invoiceCache' = S.invoiceCache /\ userCache' = S.userCache
  /\ invoiceFetchErrors' = S.invoiceFetchErrors /\ userFetchErrors' = S.userFetchErrors
  /\ invoiceReqs' = S.invoiceReqs /\ started' = S.started
  /\ threw' = S.threw /\ lookups' = S.lookups
  /\ IF PoolDone(S)
     THEN enrPc' = "done" /\ enrData' = FinalData(S) /\ enrStatus' = 200
     ELSE enrPc' = "running" /\ enrData' = <<>> /\ enrStatus' = 0

EnrInit ==
  /\ enrVariant \in EnrVariants
  /\ limit \in 1..MaxLimit
  /\ \E n \in 0..MaxTx : filtered \in [1..n -> UserIds]
  /\ tasks = TasksOf(enrVariant, filtered)
  /\ enrPc = "start"
  /\ poolI = 1
  /\ wk = [w \in PoolWorkers(limit) |-> Ready]
  /\ out = [k \in 1..Len(tasks) |-> Unset]
  /\ invoiceCache = [u \in UserIds |-> "undef"]
  /\ userCache = [u \in UserIds |-> "undef"]
  /\ invoiceFetchErrors = 0 /\ userFetchErrors = 0
  /\ invoiceReqs = [u \in UserIds |-> 0]
  /\ started = [k \in 1..Len(tasks) |-> 0]
  /\ threw = {} /\ lookups = {}
  /\ enrData = <<>> /\ enrStatus = 0
  /\ PagIdle /\ HcIdle /\ TarIdle /\ RecIdle /\ ShIdle /\ ValIdle /\ SumIdle /\ FilIdle

\* await runWithConcurrency(tasks, concurrency): the workers are created and
\* each runs up to its first await.
PoolStart ==
  /\ enrPc = "start"
  /\ Continue(runWithConcurrency(PoolState, [w \in 1..Cardinality(DOMAIN wk) |-> w]))
  /\ UNCHANGED <<enrVariant, limit, filtered, tasks>>
  /\ UNCHANGED nonEnrVars

\* The invoice-details request of a task is answered.
InvoiceAnswered ==
  /\ enrPc = "running"
  /\ \E w \in DOMAIN wk : \E ans \in InvoiceAnswers :
       /\ wk[w].st = "invoice"
       /\ LET idx == wk[w].idx
              u == tasks[idx].userId
              details == IF ans = "error" THEN "null" ELSE ans
              S1 == [PoolState EXCEPT
                       !.invoiceCache[u] = details,
                       !.invoiceFetchErrors = IF ans = "error" THEN @ + 1 ELSE @,
                       !.lookups = @ \cup {[kind |-> "invoice", idx |-> idx, userId |-> u,
                                            answer |-> ans]}]
              S2 == IF enrVariant = "perTx"
                    THEN Settle(S1, w, idx, [UserResult(idx, details, "") EXCEPT !.allowed = FALSE])
                    ELSE AfterInvoice(S1, w, idx, details)
          IN  Continue(IF S2.wk[w].st = "ready" THEN runWithConcurrency(S2, <<w>>) ELSE S2)
  /\ UNCHANGED <<enrVariant, limit, filtered, tasks>>
  /\ UNCHANGED nonEnrVars

\* The profile request of a task is answered.
ProfileAnswered ==
  /\ enrPc = "running"
  /\ \E w \in DOMAIN wk : \E ans \in ProfileAnswers :
       /\ wk[w].st = "profile"
       /\ LET idx == wk[w].idx
              u == tasks[idx].userId
              profile == IF ans = "error" THEN "null" ELSE ans
              S1 == [PoolState EXCEPT
                       !.userCache[u] = profile,
                       !.userFetchErrors = IF ans = "error" THEN @ + 1 ELSE @,
                       !.lookups = @ \cup {[kind |-> "profile", idx |-> idx, userId |-> u,
                                            answer |-> ans]}]
              S2 == Settle(S1, w, idx, UserResult(idx, S1.invoiceCache[u], EmailOf(profile)))
          IN  Continue(runWithConcurrency(S2, <<w>>))
  /\ UNCHANGED <<enrVariant, limit, filtered, tasks>>
  /\ UNCHANGED nonEnrVars

EnrNext == PoolStart \/ InvoiceAnswered \/ ProfileAnswered

EnrSpec == EnrInit /\ [][EnrNext]_vars

\* ---------------------------------------------------------------------
\* Properties of the enrichment handlers and of the pool
\* ---------------------------------------------------------------------

InvoiceLookups(u) == {l \in lookups : l.kind = "invoice" /\ l.userId = u}

InData(u) == \E j \in 1..Len(enrData) : enrData[j].userId = u

\* C16: a transaction (or user) is in the response data only if an
\* invoice-details lookup of its user succeeded and returned requireInvoice
\* === false; a user whose lookups failed, returned null, true or any other
\* value is not in the data, whatever the order of the answers.
C16_OnlyRequireInvoiceFalse ==
  enrPc = "done" =>
    /\ \A j \in 1..Len(enrData) :
         \E l \in InvoiceLookups(enrData[j].userId) : l.answer \in FalseAnswers
    /\ \A u \in UserIds :
         (\A l \in InvoiceLookups(u) : l.answer \notin FalseAnswers) => ~InData(u)

C16_Witness ==
  /\ enrPc = "done" /\ limit >= 2 /\ Len(enrData) > 0
  /\ \E u \in UserIds : InvoiceLookups(u) # {} /\ ~InData(u)

\* C17: within one request the invoice-details endpoint is requested at
\* most once per distinct userId.
C17_OneInvoiceRequestPerUser ==
  \A u \in DOMAIN invoiceReqs : invoiceReqs[u] <= 1

InFlight == Cardinality({w \in DOMAIN wk : wk[w].st \in {"invoice", "profile"}})

\* C18: the pool never has more than limit tasks in flight.
C18_AtMostLimitInFlight ==
  enrPc \in {"running", "done"} => InFlight <= limit

C18_Witness ==
  /\ enrPc = "running" /\ limit >= 2 /\ InFlight = limit
  /\ \E k \in DOMAIN out : out[k].r # "unset"

Failures == Cardinality(threw) + Cardinality({l \in lookups : l.answer = "error"})

\* C19: when a task fails its index gets a null (or error) result, every
\* other task is started and completed, and the handler answers 200 with
\* the failure counted in its error counters.
C19_TaskFailureCounted ==
  enrPc = "done" =>
    /\ enrStatus = 200
    /\ \A k \in DOMAIN out : started[k] = 1 /\ out[k].r # "unset"
    /\ \A k \in threw : out[k].r \in {"null", "error"}
    /\ invoiceFetchErrors + userFetchErrors = Failures

\* C28: the pool starts every task once, stores the result of task k at
\* index k, and resolves only when every task it started has completed.
C28_EachTaskOnceAtItsIndex ==
  /\ \A k \in DOMAIN started : started[k] <= 1
  /\ \A k \in DOMAIN out :
       /\ out[k].r # "unset" => started[k] = 1
       /\ out[k].r = "value" =>
            out[k].userId = tasks[k].userId /\ out[k].tx = tasks[k].tx
  /\ enrPc = "done" =>
       /\ InFlight = 0
       /\ \A k \in DOMAIN out : started[k] = 1 /\ out[k].r # "unset"

C28_Witness ==
  /\ enrPc = "done" /\ limit >= 2 /\ Len(tasks) > limit
  /\ \A k \in DOMAIN out : out[k].r = "value"
  /\ \E j, k \in DOMAIN out : out[j].userId # out[k].userId

ProfileRequested(u) ==
  \/ \E w \in DOMAIN wk : wk[w].st = "profile" /\ tasks[wk[w].idx].userId = u
  \/ \E l \in lookups : l.kind = "profile" /\ l.userId = u

\* C30: the profile of a user is requested only after the user's
\* invoice-details lookup has answered requireInvoice === false without an
\* e-mail address: never for an excluded user and never when
\* invoice-details supplies the address; a failed profile request leaves
\* the user in the data with email null.
C30_ProfileOnlyAsFallback ==
  /\ \A u \in UserIds :
       ProfileRequested(u) =>
         /\ InvoiceLookups(u) # {}
         /\ \A l \in InvoiceLookups(u) : l.answer = "false"
  /\ enrPc = "done" =>
       \A l \in lookups :
         (l.kind = "profile" /\ l.answer = "error") =>
           /\ out[l.idx].r = "value" /\ out[l.idx].allowed
           /\ out[l.idx].email = ""
           /\ InData(l.userId)

C30_Witness ==
  /\ enrPc = "done"
  /\ \E l \in lookups : l.kind = "profile" /\ l.answer = "error" /\ InData(l.userId)
  /\ \E l \in lookups : l.kind = "invoice" /\ l.answer = "falseEmail"
                          /\ ~ProfileRequested(l.userId)

\* ---------------------------------------------------------------------
\* Request parameters: the date range and per_page, from the query to the
\* first upstream request.
\*   "sessionsApi":   api/ampeco-sessions.js
\*   "sessionsMerge": the sessions handlers of unnamed/part_000
\*   "transactions":  the transaction handlers (toIsoOrDefault, clampInt)
\*   "report":        the per-user report of api/ampeco-transactions.js
\* ---------------------------------------------------------------------

ValHandlers == {"sessionsApi", "sessionsMerge", "transactions", "report"}

\* A date parameter: absent, "", " ", an ISO-8601 datetime, or other text.
DateInputs == {"absent", "empty", "blank", "iso", "garbage"}

\* new Date(String(v).trim()).getTime()
DateParse(v) == IF v = "iso" THEN "instant" ELSE "NaN"

\* !v
Falsy(v) == v \in {"absent", "empty"}

\* toIsoOrDefault(v, def): the default unless v parses, then d.toISOString()
toIsoOrDefault(v, def) ==
  IF Falsy(v) THEN def
  ELSE IF DateParse(v) = "NaN" THEN def
  ELSE "isoZ"

\* per_page values, in tenths: -5, 0, 0.5, 1, 2.7, 50, 100, 100.5, 150
PerPageTenths == {-50, 0, 5, 10, 27, 500, 1000, 1005, 1500}

\* per_page of the query: absent, "", text that is no number, or a number
PerPageInputs ==
  {[kind |-> k, tenths |-> 0] : k \in {"absent", "empty", "text"}}
    \cup {[kind |-> "number", tenths |-> t] : t \in PerPageTenths}

\* NaN, as a value apart from every number of the model
NaN == -1000000

\* Number(v): undefined and text give NaN, "" gives 0
NumberOf(v) ==
  CASE v.kind = "absent" -> NaN
    [] v.kind = "text" -> NaN
    [] v.kind = "empty" -> 0
    [] OTHER -> v.tenths

\* Math.trunc, on tenths
Trunc(x) == IF x >= 0 THEN (x \div 10) * 10 ELSE 0 - (((0 - x) \div 10) * 10)

\* Math.max / Math.min: NaN if an argument is NaN
MathMax(a, b) == IF a = NaN \/ b = NaN THEN NaN ELSE IF a > b THEN a ELSE b
MathMin(a, b) == IF a = NaN \/ b = NaN THEN NaN ELSE IF a < b THEN a ELSE b

\* clampInt(v, min, max, def), all in tenths
clampInt(v, min, max, def) ==
  LET Clamp(n) == IF n = NaN THEN def ELSE MathMax(min, MathMin(max, Trunc(n)))
  IN Clamp(NumberOf(v))

\* Math.min(100, Math.max(1, Number(req.query.per_page || 100)))
perPageMinMax(v) ==
  MathMin(1000, MathMax(10, IF v.kind \in {"absent", "empty"} THEN 1000 ELSE NumberOf(v)))

ValInit ==
  /\ valHandler \in ValHandlers
  /\ qAfter \in DateInputs
  /\ qBefore \in DateInputs
  /\ qPerPage \in PerPageInputs
  /\ valPc = "start"
  /\ valStatus = 0
  /\ sentAfter = "none" /\ sentBefore = "none" /\ sentPerPage = 0
  /\ PagIdle /\ HcIdle /\ TarIdle /\ RecIdle /\ ShIdle /\ EnrIdle /\ SumIdle /\ FilIdle

Reject(status) ==
  /\ valStatus' = status
  /\ valPc' = "done"
  /\ UNCHANGED <<sentAfter, sentBefore, sentPerPage>>

Send(after, before, pp) ==
  /\ sentAfter' = after /\ sentBefore' = before /\ sentPerPage' = pp
  /\ valPc' = "upstream"
  /\ UNCHANGED valStatus

\* api/ampeco-sessions.js: if (!startedAfter || !startedBefore) 400; the
\* values go into the URL as received, per_page is the constant 100.
SessionsApiParams ==
  /\ valHandler = "sessionsApi" /\ valPc = "start"
  /\ IF Falsy(qAfter) \/ Falsy(qBefore)
       THEN Reject(400)
       ELSE Send(qAfter, qBefore, 1000)
  /\ UNCHANGED <<valHandler, qAfter, qBefore, qPerPage>>
  /\ UNCHANGED nonValVars

\* part_000: String(req.query.startedAfter || defAfter)
SessionsMergeParams ==
  /\ valHandler = "sessionsMerge" /\ valPc = "start"
  /\ Send(IF Falsy(qAfter) THEN "default" ELSE qAfter,
          IF Falsy(qBefore) THEN "default" ELSE qBefore,
          perPageMinMax(qPerPage))
  /\ UNCHANGED <<valHandler, qAfter, qBefore, qPerPage>>
  /\ UNCHANGED nonValVars

\* the transaction handlers: toIsoOrDefault, clampInt(per_page, 1, 100, 100)
TransactionsParams ==
  /\ valHandler = "transactions" /\ valPc = "start"
  /\ Send(toIsoOrDefault(qAfter, "default"), toIsoOrDefault(qBefore, "default"),
          clampInt(qPerPage, 10, 1000, 1000))
  /\ UNCHANGED <<valHandler, qAfter, qBefore, qPerPage>>
  /\ UNCHANGED nonValVars

\* the per-user report: 400 when from / to is missing or does not parse
ReportParams ==
  /\ valHandler = "report" /\ valPc = "start"
  /\ IF Falsy(qAfter) \/ Falsy(qBefore)
       THEN Reject(400)
       ELSE IF DateParse(qAfter) = "NaN" \/ DateParse(qBefore) = "NaN"
       THEN Reject(400)
       ELSE Send(qAfter, qBefore, 1000)
  /\ UNCHANGED <<valHandler, qAfter, qBefore, qPerPage>>
  /\ UNCHANGED nonValVars

\* the upstream answers the request, or fetch throws and the catch answers 500
ValUpstreamAnswers ==
  /\ valPc = "upstream"
  /\ \E ok \in BOOLEAN : valStatus' = IF ok THEN 200 ELSE 500
  /\ valPc' = "done"
  /\ UNCHANGED <<valHandler, qAfter, qBefore, qPerPage, sentAfter, sentBefore, sentPerPage>>
  /\ UNCHANGED nonValVars

ValNext ==
  \/ SessionsApiParams
  \/ SessionsMergeParams
  \/ TransactionsParams
  \/ ReportParams
  \/ ValUpstreamAnswers

ValSpec == ValInit /\ [][ValNext]_vars

\* ---------------------------------------------------------------------
\* Properties of the request parameters
\* ---------------------------------------------------------------------

DateRequired == valHandler \in {"sessionsApi", "report"}

BadDate(v) == (DateRequired /\ Falsy(v)) \/ (~Falsy(v) /\ DateParse(v) = "NaN")

\* C21: a request whose date-range parameter is required and missing, or
\* present and not a parseable datetime, is answered with a 4xx status; it
\* is never answered with 200 or 5xx and no upstream request carries the
\* malformed value.
C21_BadDateRejected ==
  (BadDate(qAfter) \/ BadDate(qBefore)) =>
    \/ valPc = "start"
    \/ /\ valPc = "done" /\ valStatus \in 400..499
       /\ sentAfter = "none" /\ sentBefore = "none"

\* C24: the per_page value sent to the upstream is an integer between 1
\* and 100, whatever per_page the query carries.
C24_PerPageIntegerInRange ==
  sentAfter # "none" =>
    /\ sentPerPage # NaN
    /\ sentPerPage % 10 = 0
    /\ 10 <= sentPerPage /\ sentPerPage <= 1000

\* ---------------------------------------------------------------------
\* Energies and the month summary, unnamed/part_000.  Energies in Wh are
\* counted in units of 0.0001 Wh, energies in kWh in units of 1e-9 kWh.
\* ---------------------------------------------------------------------

MaxEntries == 2              \* charging periods / samples of the session

NoEnergy == -1               \* null of safeNum, "" of energy_kwh

\* starts: none, 09:00 and 00:00 Vilnius time inside the window
SumStarts == {NoStart, WindowStart, WindowStart + 900}

\* energies: absent, 0 Wh, 0.0004 Wh, 12.3456 Wh, 250 Wh
EnergyVals == {NoEnergy, 0, 4, 123456, 2500000}

\* safeNum(x): null unless Number(x) is finite
safeNum(x) == IF x = NoEnergy THEN NoEnergy ELSE x

\* energyWh / 1000
KwhOfWh(wh) == wh * 100

\* +x.toFixed(6): x rounded to 6 decimals
toFixed6(x) == ((x + 500) \div 1000) * 1000

\* energy_kwh: energyKwh === null ? "" : +energyKwh.toFixed(6)
energy_kwh(wh) ==
  IF safeNum(wh) = NoEnergy THEN NoEnergy ELSE toFixed6(KwhOfWh(safeNum(wh)))

\* energy_kwh of makeExcelPeriodsOnly: Number(p?.energy ?? 0)
energy_kwhPeriodsOnly(wh) ==
  toFixed6(KwhOfWh(IF wh = NoEnergy THEN 0 ELSE wh))

\* the energy of the record a row was made of
WhOfRow(r) ==
  IF r.from.list = "chargingPeriods" THEN whP[r.from.pos] ELSE whC[r.from.pos]

\* if (energyKwh !== null) { if (tarifas === label) sum += energyKwh }
RECURSIVE SumKwh(_, _)
SumKwh(rows, label) ==
  IF rows = <<>> THEN 0
  ELSE (IF Head(rows).tarifas = label /\ safeNum(WhOfRow(Head(rows))) # NoEnergy
        THEN KwhOfWh(safeNum(WhOfRow(Head(rows)))) ELSE 0)
       + SumKwh(Tail(rows), label)

SumInit ==
  /\ \E n \in 0..MaxEntries : \E f \in [1..n -> SumStarts \X EnergyVals] :
       \E asPeriods \in BOOLEAN :
         LET starts == [k \in 1..n |-> f[k][1]]
             whs == [k \in 1..n |-> f[k][2]]
         IN IF asPeriods
            THEN recSessions = <<SessionOf(1, starts, <<>>)>> /\ whP = whs /\ whC = <<>>
            ELSE recSessions = <<SessionOf(1, <<>>, starts)>> /\ whP = <<>> /\ whC = whs
  /\ recCall = "none"
  /\ recRows = <<>>
  /\ recRowsCount = 0
  /\ recSheet = "none"
  /\ recTotal = 0
  /\ rowKwh = <<>> /\ sumDay = 0 /\ sumNight = 0
  /\ PagIdle /\ HcIdle /\ TarIdle /\ ShIdle /\ EnrIdle /\ ValIdle /\ FilIdle

\* extractDetailRowsForStation: { rows, sumDay, sumNight, rowsCount }
ExtractSummary ==
  /\ recCall = "none"
  /\ \E h24 \in BOOLEAN : \E r \in {extractDetailRowsForStation(recSessions, h24)} :
       /\ recRows' = r.rows
       /\ recRowsCount' = r.rowsCount
       /\ rowKwh' = [k \in 1..Len(r.rows) |-> energy_kwh(WhOfRow(r.rows[k]))]
       /\ sumDay' = SumKwh(r.rows, "Dieninis")
       /\ sumNight' = SumKwh(r.rows, "Naktinis")
  /\ recCall' = "extractDetailRowsForStation"
  /\ UNCHANGED <<recSessions, recSheet, recTotal, whP, whC>>
  /\ UNCHANGED nonSumVars

\* makeExcelPeriodsOnly: the rows of the charging periods and their energy_kwh
PeriodsOnlyEnergies ==
  /\ recCall = "none"
  /\ \E h24 \in BOOLEAN : \E rows \in {PeriodRowsOf(recSessions, h24)} :
       /\ recRows' = RowsOrPlaceholder(rows)
       /\ rowKwh' = IF Len(rows) = 0 THEN <<NoEnergy>>
                    ELSE [k \in 1..Len(rows) |-> energy_kwhPeriodsOnly(WhOfRow(rows[k]))]
  /\ recCall' = "makeExcelPeriodsOnly"
  /\ recSheet' = "station"
  /\ UNCHANGED <<recSessions, recRowsCount, recTotal, whP, whC, sumDay, sumNight>>
  /\ UNCHANGED nonSumVars

SumNext ==
  \/ ExtractSummary
  \/ PeriodsOnlyEnergies

SumSpec == SumInit /\ [][SumNext]_vars

\* ---------------------------------------------------------------------
\* Properties of the energies and the month summary
\* ---------------------------------------------------------------------

\* a row made of a record that carries an energy
HasEnergy(k) ==
  /\ ~IsPlaceholder(recRows[k])
  /\ WhOfRow(recRows[k]) # NoEnergy
  /\ rowKwh[k] # NoEnergy

\* energy_kwh times 1000, less the energy in Wh, in units of 0.000001 Wh
RoundTripError(k) ==
  LET d == rowKwh[k] - WhOfRow(recRows[k]) * 100
  IN IF d < 0 THEN 0 - d ELSE d

\* C22: the energy_kwh written for an energy in Wh, multiplied by 1000,
\* is the energy in Wh again within 0.000001.
C22_RoundTripWithinTolerance ==
  recCall # "none" =>
    \A k \in 1..Len(recRows) : HasEnergy(k) => RoundTripError(k) <= 1

RECURSIVE SumSeq(_)
SumSeq(q) == IF q = <<>> THEN 0 ELSE (IF Head(q) = NoEnergy THEN 0 ELSE Head(q)) + SumSeq(Tail(q))

\* C29: what extractDetailRowsForStation returns is consistent: rowsCount is
\* the number of rows, every row is labelled "Dieninis" or "Naktinis", and
\* sumDay + sumNight is the sum of the energies of the rows.
C29_SummaryMatchesRows ==
  recCall = "extractDetailRowsForStation" =>
    /\ recRowsCount = Len(recRows)
    /\ \A k \in 1..Len(recRows) : recRows[k].tarifas \in {"Dieninis", "Naktinis"}
    /\ sumDay + sumNight = SumSeq(rowKwh)

\* ---------------------------------------------------------------------
\* The filter step of the transactions handler, api/ampeco-transactions.js.
\* ---------------------------------------------------------------------

MaxFetched == 2              \* transactions the fetch step hands over

\* totalAmount of a transaction: absent, 0, text that is no number, 12.5
AmountVals == {"absent", "0", "abc", "12.5"}
StatusVals == {"finalized", "pending"}
PaymentVals == {"VISA **** 1234", "cash"}
NoUserId == 0                \* userId null / undefined
TxUserIds == {NoUserId, 7}

Transactions == [totalAmount : AmountVals, status : StatusVals,
                 paymentMethod : PaymentVals, userId : TxUserIds]

\* Number(t?.totalAmount ?? t?.amount ?? 0), in tenths
totalAmountOf(t) ==
  CASE t.totalAmount = "absent" -> 0
    [] t.totalAmount = "0" -> 0
    [] t.totalAmount = "abc" -> NaN
    [] OTHER -> 125

\* paymentRegex.test(paymentMethod), the default pattern
paymentRegexTest(pm) == pm = "VISA **** 1234"

\* the userId test left out
FilterVerdictNoUserTest(t) ==
  IF totalAmountOf(t) = NaN \/ totalAmountOf(t) = 0 THEN "totalZero"
  ELSE IF t.status # "finalized" THEN "statusNotFinal"
  ELSE IF ~paymentRegexTest(t.paymentMethod) THEN "payNoMatch"
  ELSE "keep"

\* the body of the loop: the counter a transaction goes to, or "keep"
FilterVerdict(t) ==
  IF totalAmountOf(t) = NaN \/ totalAmountOf(t) = 0 THEN "totalZero"
  ELSE IF t.status # "finalized" THEN "statusNotFinal"
  ELSE IF ~paymentRegexTest(t.paymentMethod) THEN "payNoMatch"
  ELSE IF t.userId = NoUserId THEN "missingUserId"
  ELSE "keep"

FilInit ==
  /\ \E n \in 0..MaxFetched : transactions \in [1..n -> Transactions]
  /\ txPos = 0
  /\ reasons = [totalZero |-> 0, statusNotFinal |-> 0, payNoMatch |-> 0, missingUserId |-> 0]
  /\ filteredTx = <<>>
  /\ PagIdle /\ HcIdle /\ TarIdle /\ RecIdle /\ ShIdle /\ EnrIdle /\ ValIdle /\ SumIdle

\* one iteration of for (const t of transactions)
FilterOne ==
  /\ txPos < Len(transactions)
  /\ txPos' = txPos + 1
  /\ \E v \in {FilterVerdict(transactions[txPos + 1])} :
       IF v = "keep"
       THEN filteredTx' = Append(filteredTx, transactions[txPos + 1]) /\ UNCHANGED reasons
       ELSE reasons' = [reasons EXCEPT ![v] = @ + 1] /\ UNCHANGED filteredTx
  /\ UNCHANGED transactions
  /\ UNCHANGED nonFilVars

FilNext == FilterOne

FilSpec == FilInit /\ [][FilNext]_vars

\* ---------------------------------------------------------------------
\* Properties of the filter step
\* ---------------------------------------------------------------------

\* totalAmount finite and not 0, status "finalized", paymentMethod matching,
\* userId present
Passes(t) ==
  /\ t.totalAmount = "12.5"
  /\ t.status = "finalized"
  /\ t.paymentMethod = "VISA **** 1234"
  /\ t.userId # NoUserId

\* C25: every transaction the filter has handled is kept or counted by one
\* drop reason: the four counters and the number kept add up to the number
\* handled (to the number fetched when the step is over), and the filteredTx
\* transactions are those with a finite non-zero totalAmount, status
\* "finalized", a matching paymentMethod and a userId, in order.
C25_KeptOrCountedOnce ==
  /\ reasons.totalZero + reasons.statusNotFinal + reasons.payNoMatch
       + reasons.missingUserId + Len(filteredTx) = txPos
  /\ filteredTx = SelectSeq(SubSeq(transactions, 1, txPos), Passes)

C25_Witness ==
  /\ txPos = Len(transactions) /\ txPos = MaxFetched
  /\ Len(filteredTx) = 1
  /\ reasons.missingUserId = 1

====
